---- MODULE Spec2Model ----
(***************************************************************************)
(* Scoring and comparison engine of NBAScoutPro (src/app/similarity.py,    *)
(* src/config.py): tier projection (predict_tier), the weighted-distance   *)
(* similarity engine (calculate_similarity) and comp selection             *)
(* (find_archetype_matches).                                               *)
(*                                                                         *)
(* Numbers.  Stat values are integers in tenths (18.5 PPG is 185, a height *)
(* of 78 inches is 780, class year 1 is 10).  predict_tier's score only    *)
(* ever moves by integers and by -2.4 / -4.8, so it is held exactly in     *)
(* tenths.  calculate_similarity is evaluated in fixed point: adjusted     *)
(* per-30 values and normalized values in units of 1/10000, weights in     *)
(* units of 1/1000, distance terms in units of 1/100000, the returned      *)
(* score in tenths (the code rounds it to one decimal).                    *)
(***************************************************************************)
EXTENDS Integers, Sequences, FiniteSets, TLC

VARIABLES
    player_db,   \* the historical pool handed to find_archetype_matches
    comps,       \* the dict returned by the last find_archetype_matches call
    top_matches, \* the list returned by the last find_top_matches call
    player,      \* the prospect dict handed to predict_tier
    edits,       \* number of field edits applied to the prospect so far
    prediction,  \* the dict returned by the last predict_tier call
    player_a,    \* the prospect dict handed to calculate_similarity
    player_b,    \* the database player handed to calculate_similarity
    sim_edits,   \* number of field edits applied to the pair so far
    sim,         \* the dict returned by the last calculate_similarity call
    tables,      \* the module-level weight tables of config.py, as objects
    records,     \* the player dicts the calls are handed
    calls,       \* the calls made so far: function, arguments, result
    args,        \* the arguments a helper function is called with
    ret          \* what the helper function returned

vars == <<player_db, comps, top_matches, player, edits, prediction,
          player_a, player_b, sim_edits, sim, tables, records, calls,
          args, ret>>

compVars == <<player_db, comps, top_matches>>
tierVars == <<player, edits, prediction>>
simVars  == <<player_a, player_b, sim_edits, sim>>
frameVars == <<tables, records, calls>>
fnVars == <<args, ret>>

\* Bounds of the exploration.
MaxPool == 3
MaxEdits == 2

\* "no value": a key missing from a dict, and Python's None.
ABSENT == -99999
NONE == -99998

Min(a, b) == IF a <= b THEN a ELSE b
Max(a, b) == IF a >= b THEN a ELSE b
Abs(a) == IF a >= 0 THEN a ELSE -a

(***************************************************************************)
(* Comp selection: find_archetype_matches                                  *)
(***************************************************************************)

EXCLUDE_PLAYERS == {"Joel Embiid", "Donovan Mitchell", "Larry Johnson",
                    "Emeka Okafor", "Isaiah Thomas", "Steve Smith",
                    "Shawn Kemp", "Donyell Marshall", "Vin Baker"}

COMP_YEAR_RANGE == <<2010, 2021>>

\* Similarity threshold of the ceiling/floor searches (score >= 30), tenths.
COMP_MIN_SCORE == 300

\* Variant with the default anchor one tier better.
DEFAULT_ANCHOR_three == 4 - 1

\* Anchor used when the pool is empty and no anchor is supplied.
DEFAULT_ANCHOR == 4

Archetypes == <<"Scoring Guard", "Playmaking Guard", "3&D Wing",
                "Scoring Wing", "Skilled Big", "Athletic Big">>

\* The pool filter of find_archetype_matches, in the order of the code.
\* gp and mpg are read with "s.get(k, 30) or 30": absent and 0 both give 30.
OrDefault(v, d) == IF v = ABSENT \/ v = NONE \/ v = 0 THEN d ELSE v

\* Variant of the filter that keeps every archetype.
InPool_any_archetype(p, archetype) ==
    /\ p.has_college_stats
    /\ p.name \notin EXCLUDE_PLAYERS
    /\ LET draft_yr == OrDefault(p.draft_year, 0)
       IN  ~(draft_yr < COMP_YEAR_RANGE[1] \/ draft_yr > COMP_YEAR_RANGE[2])
    /\ ~(OrDefault(p.gp, 300) < 250 \/ OrDefault(p.mpg, 300) < 200)

InPool(p, archetype) ==
    /\ p.has_college_stats
    /\ p.name \notin EXCLUDE_PLAYERS
    /\ LET draft_yr == OrDefault(p.draft_year, 0)
       IN  ~(draft_yr < COMP_YEAR_RANGE[1] \/ draft_yr > COMP_YEAR_RANGE[2])
    /\ ~(OrDefault(p.gp, 300) < 250 \/ OrDefault(p.mpg, 300) < 200)
    /\ p.arch = archetype

\* same_arch: the players of player_db that pass the filter, in pool order.
RECURSIVE SameArch(_, _)
SameArch(db, archetype) ==
    IF db = <<>> THEN <<>>
    ELSE IF InPool(Head(db), archetype)
         THEN <<Head(db)>> \o SameArch(Tail(db), archetype)
         ELSE SameArch(Tail(db), archetype)

\* results.sort(key=score, reverse=True): a stable sort, so players with equal
\* scores keep their pool order.  Insert m behind every entry scoring >= m.
\* Variant that puts m in front of the entries with its score.
RECURSIVE InsertDesc_before_ties(_, _)
InsertDesc_before_ties(sorted, m) ==
    IF sorted = <<>> THEN <<m>>
    ELSE IF Head(sorted).sim > m.sim
         THEN <<Head(sorted)>> \o InsertDesc_before_ties(Tail(sorted), m)
         ELSE <<m>> \o sorted

RECURSIVE InsertDesc(_, _)
InsertDesc(sorted, m) ==
    IF sorted = <<>> THEN <<m>>
    ELSE IF Head(sorted).sim >= m.sim
         THEN <<Head(sorted)>> \o InsertDesc(Tail(sorted), m)
         ELSE <<m>> \o sorted

RECURSIVE SortDesc(_)
SortDesc(s) ==
    IF s = <<>> THEN <<>>
    ELSE InsertDesc(SortDesc(SubSeq(s, 1, Len(s) - 1)), s[Len(s)])

\* "for m in results: if cond(m): pick = m; break" -- index of the first hit,
\* 0 when the loop ends without one.
FirstIdx(hits) ==
    IF hits # {}
    THEN CHOOSE i \in hits : \A j \in hits : i <= j
    ELSE 0

\* The positions of results whose comp lies in the tier range and reaches the
\* similarity threshold.
Hits(results, tier_lo, tier_hi) ==
    {i \in 1..Len(results) :
        /\ tier_lo <= results[i].tier /\ results[i].tier <= tier_hi
        /\ results[i].sim >= COMP_MIN_SCORE}

NoComp == [idx |-> 0]

Pick(results, i) == IF i = 0 THEN NoComp ELSE results[i]

FirstOf(a, b) == IF a # NoComp THEN a ELSE b

\* The narrow ceiling window search (lines 1019-1026).
CeilingWindow(results, pred) ==
    LET ceil_target_lo == Max(1, pred - 2)
        ceil_target_hi == pred - 1
    IN  IF ceil_target_hi >= ceil_target_lo
        THEN Pick(results,
                  FirstIdx(Hits(results, ceil_target_lo, ceil_target_hi)))
        ELSE NoComp

\* Variant without the wide ceiling search: the chain goes from the narrow
\* window straight to the closest comp.
CeilingFallback_skipped(results, pred) ==
    Pick(results, FirstIdx({}))

\* The ceiling fallback: any comp with tier <= pred (lines 1028-1032).
CeilingFallback(results, pred) ==
    Pick(results, FirstIdx({i \in 1..Len(results) :
                              /\ results[i].tier <= pred
                              /\ results[i].sim >= COMP_MIN_SCORE}))

\* Variant whose floor window holds the next worse tier only.
FloorWindow_one_tier(results, pred) ==
    Pick(results, FirstIdx(Hits(results, pred + 1, pred + 1)))

\* The narrow floor window search (lines 1038-1045).
FloorWindow(results, pred) ==
    LET floor_target_lo == pred + 1
        floor_target_hi == Min(5, pred + 2)
    IN  IF floor_target_hi >= floor_target_lo
        THEN Pick(results,
                  FirstIdx(Hits(results, floor_target_lo, floor_target_hi)))
        ELSE NoComp

\* Variant without the wide floor search: the chain goes from the narrow
\* window straight to the closest comp.
FloorFallback_skipped(results, pred) ==
    Pick(results, FirstIdx({}))

\* The floor fallback: any comp with tier >= pred (lines 1047-1051).
FloorFallback(results, pred) ==
    Pick(results, FirstIdx({i \in 1..Len(results) :
                              /\ results[i].tier >= pred
                              /\ results[i].sim >= COMP_MIN_SCORE}))

\* Variant without the sanity check: the picks are returned as found.
NeedSwap_never(ceiling, floor) ==
    ceiling # NoComp /\ floor # NoComp /\ ceiling.tier > 5

\* The sanity check of lines 1056-1058: TRUE when ceiling and floor are swapped.
NeedSwap(ceiling, floor) ==
    ceiling # NoComp /\ floor # NoComp /\ ceiling.tier > floor.tier

TakeN(s, n) == SubSeq(s, 1, Min(n, Len(s)))

TOP_N == 10

\* Variant that takes the tier of the closest comp before the supplied anchor.
Anchor_closest_first(anchor_tier, closest_comp) ==
    IF closest_comp # NoComp THEN closest_comp.tier
    ELSE IF anchor_tier # NONE THEN anchor_tier
    ELSE DEFAULT_ANCHOR

\* Lines 1010-1016: the anchor of the ceiling and floor search.
Anchor(anchor_tier, closest_comp) ==
    IF anchor_tier # NONE THEN anchor_tier
    ELSE IF closest_comp # NoComp THEN closest_comp.tier
    ELSE DEFAULT_ANCHOR

find_archetype_matches(archetype, db, anchor_tier) ==
    LET same_arch == SameArch(db, archetype)
        results == SortDesc(same_arch)
        closest_comp == IF results # <<>> THEN results[1] ELSE NoComp
        pred == Anchor(anchor_tier, closest_comp)
        ceiling0 == FirstOf(CeilingWindow(results, pred),
                      FirstOf(CeilingFallback(results, pred), closest_comp))
        floor0 == FirstOf(FloorWindow(results, pred),
                    FirstOf(FloorFallback(results, pred), closest_comp))
        swap == NeedSwap(ceiling0, floor0)
        ceiling_comp == IF swap THEN floor0 ELSE ceiling0
        floor_comp == IF swap THEN ceiling0 ELSE floor0
    IN  [archetype |-> archetype,
         anchor_tier |-> anchor_tier,
         results |-> results,
         matches |-> TakeN(results, TOP_N),
         predicted_tier |-> pred,
         closest_comp |-> closest_comp,
         ceiling_comp |-> ceiling_comp,
         ceiling_tier |-> IF ceiling_comp # NoComp THEN ceiling_comp.tier ELSE pred,
         floor_comp |-> floor_comp,
         floor_tier |-> IF floor_comp # NoComp THEN floor_comp.tier ELSE pred,
         pool_size |-> Len(same_arch),
         swapped |-> swap]

NoResult == [called |-> FALSE]

\* Database players the pool is filled from.  sim is the score that
\* calculate_similarity gives the current prospect against the player
\* (tenths), arch the label classify_archetype gives the player.
Qualified ==
    [name : {"comp"}, has_college_stats : {TRUE}, draft_year : {2015},
     gp : {300}, mpg : {300}, arch : {"Scoring Guard"},
     tier : 1..5, sim : {299, 300, 600}]

Base == [name |-> "comp", has_college_stats |-> TRUE, draft_year |-> 2015,
         gp |-> 300, mpg |-> 300, arch |-> "Scoring Guard",
         tier |-> 1, sim |-> 900]

Unqualified ==
    { [Base EXCEPT !.has_college_stats = FALSE, !.gp = 0],
      [Base EXCEPT !.name = "Joel Embiid"],
      [Base EXCEPT !.draft_year = 2022],
      [Base EXCEPT !.gp = 240],
      [Base EXCEPT !.arch = "Skilled Big"] }

DbPlayers == Qualified \cup Unqualified

\* A database record with its position in player_db.
WithIdx(p, i) ==
    [idx |-> i, name |-> p.name, has_college_stats |-> p.has_college_stats,
     draft_year |-> p.draft_year, gp |-> p.gp, mpg |-> p.mpg,
     arch |-> p.arch, tier |-> p.tier, sim |-> p.sim]

\* load_player_db: one more record of the processed database is read.
LoadPlayer ==
    /\ Len(player_db) < MaxPool
    /\ \E p \in DbPlayers :
          player_db' = Append(player_db, WithIdx(p, Len(player_db) + 1))
    /\ comps' = NoResult
    /\ top_matches' = NoResult
    /\ UNCHANGED <<tierVars, simVars, frameVars, fnVars>>

\* A call of find_archetype_matches for a Scoring Guard prospect.
FindArchetypeMatches ==
    /\ comps = NoResult /\ top_matches = NoResult
    /\ \E anchor_tier \in {NONE} \cup 1..5 :
          comps' = [called |-> TRUE] @@
                   find_archetype_matches("Scoring Guard", player_db, anchor_tier)
    /\ UNCHANGED <<player_db, top_matches, tierVars, simVars, frameVars,
                   fnVars>>

\* Lines 946-954: the players find_top_matches scores.
Scored(p) ==
    /\ p.name \notin EXCLUDE_PLAYERS
    /\ LET draft_yr == OrDefault(p.draft_year, 0)
       IN  ~(draft_yr < COMP_YEAR_RANGE[1] \/ draft_yr > COMP_YEAR_RANGE[2])
    /\ ~(OrDefault(p.gp, 300) < 250 \/ OrDefault(p.mpg, 300) < 200)

RECURSIVE ScoredOf(_)
ScoredOf(db) ==
    IF db = <<>> THEN <<>>
    ELSE IF Scored(Head(db)) THEN <<Head(db)>> \o ScoredOf(Tail(db))
         ELSE ScoredOf(Tail(db))

\* find_top_matches(prospect, player_db, top_n=...): lines 942-959.
find_top_matches(db, top_n) == TakeN(SortDesc(ScoredOf(db)), top_n)

\* matches = find_top_matches(prospect, train_db, pos_avgs, None, top_n=5)
FindTopMatches ==
    /\ comps = NoResult /\ top_matches = NoResult
    /\ \E top_n \in {1, 2, 5} :
          top_matches' = [called |-> TRUE, top_n |-> top_n,
                          matches |-> find_top_matches(player_db, top_n)]
    /\ UNCHANGED <<player_db, comps, tierVars, simVars, frameVars, fnVars>>

(***************************************************************************)
(* Reading a dict                                                          *)
(***************************************************************************)

\* player.get(k, d): the default only replaces a missing key, not None.
Get(p, k, d) == IF p[k] = ABSENT THEN d ELSE p[k]

\* player.get(k, d) or d2: None and 0 are falsy and give d2.
GetOr(p, k, d, d2) == OrDefault(Get(p, k, d), d2)

\* Truthiness of player.get(k, 0).
Truthy(p, k) == p[k] # ABSENT /\ p[k] # NONE /\ p[k] # 0

\* player.get("pos", "W") and player.get("quadrant", "Q1").
GetStr(p, k, d) == IF p[k] = "absent" THEN d ELSE p[k]

\* QUADRANT_MODIFIERS.get(quadrant, 1.0), in hundredths.
QUADRANT_MODIFIERS(quadrant) ==
    CASE quadrant = "Q1" -> 100
      [] quadrant = "Q2" -> 90
      [] quadrant = "Q3" -> 80
      [] quadrant = "Q4" -> 70
      [] OTHER -> 100

R(cond, label) == IF cond THEN <<label>> ELSE <<>>

(***************************************************************************)
(* Tier projection: predict_tier                                           *)
(***************************************************************************)

\* STAR_SIGNAL_THRESHOLDS, tenths, in the dict's order.
STAR_SIGNAL_THRESHOLDS ==
    << <<"bpm", 76>>, <<"obpm", 69>>, <<"fta", 47>>, <<"spg", 14>>,
       <<"stl_per", 23>>, <<"usg", 259>>, <<"ft", 813>> >>

\* The tags of count_star_signals; its count is their number.
RECURSIVE StarTags(_, _)
StarTags(p, i) ==
    IF i > Len(STAR_SIGNAL_THRESHOLDS) THEN <<>>
    ELSE R(GetOr(p, STAR_SIGNAL_THRESHOLDS[i][1], 0, 0)
               > STAR_SIGNAL_THRESHOLDS[i][2],
           STAR_SIGNAL_THRESHOLDS[i][1]) \o StarTags(p, i + 1)

count_star_signals(p) == StarTags(p, 1)

\* detect_unicorn_traits reads the stats with get(k, default) and no "or":
\* a None reaches the comparison and "None > 7.0" raises TypeError.  Python
\* evaluates "a and b" left to right, so the comparison is reached only when
\* the conjuncts before it are true.
UnicornRaises(p) ==
    LET pos == GetStr(p, "pos", "W")
        ppg == Get(p, "ppg", 0)
        rpg == Get(p, "rpg", 0)
        apg == Get(p, "apg", 0)
        bpg == Get(p, "bpg", 0)
        spg == Get(p, "spg", 0)
        threeP == Get(p, "threeP", 0)
        h == Get(p, "h", 780)
    IN  \/ pos = "G" /\ rpg = NONE
        \/ pos = "B" /\ apg = NONE
        \/ pos = "B" /\ threeP = NONE
        \/ pos = "B" /\ threeP # NONE /\ threeP > 330 /\ ppg = NONE
        \/ pos \in {"G", "W"} /\ bpg = NONE
        \/ pos = "G" /\ h = NONE
        \/ pos = "G" /\ h # NONE /\ h > 770 /\ apg = NONE
        \/ pos = "G" /\ h # NONE /\ h < 750 /\ spg = NONE
        \/ pos \in {"W", "B"} /\ spg = NONE

\* The traits of detect_unicorn_traits when no comparison raises.
detect_unicorn_traits(p) ==
    LET pos == GetStr(p, "pos", "W")
        ppg == Get(p, "ppg", 0)
        rpg == Get(p, "rpg", 0)
        apg == Get(p, "apg", 0)
        bpg == Get(p, "bpg", 0)
        spg == Get(p, "spg", 0)
        threeP == Get(p, "threeP", 0)
        h == Get(p, "h", 780)
    IN  R(pos = "G" /\ rpg > 70, "rebounding_guard")
        \o R(pos = "B" /\ apg > 35, "passing_big")
        \o R(pos = "B" /\ threeP > 330 /\ ppg > 100, "stretch_big")
        \o R(pos \in {"G", "W"} /\ bpg > 15, "shot_blocking_wing")
        \o R(pos = "G" /\ h > 770 /\ apg > 40, "tall_playmaker")
        \o R(pos = "G" /\ h < 750 /\ spg > 20, "pickpocket")
        \o R(pos \in {"W", "B"} /\ spg > 18, "defensive_unicorn")

\* Python's round() of x/1000 for the empty-calories penalty.
RoundMilli(x) == (x + 500) \div 1000

\* Variant with the tier-3 cut point moved up to 45.
TierOf_cut45(score) ==
    IF score >= 800 THEN 1
    ELSE IF score >= 540 THEN 2
    ELSE IF score >= 450 THEN 3
    ELSE IF score >= 220 THEN 4
    ELSE 5

\* The score-to-tier staircase of predict_tier (score in tenths).
TierOf(score) ==
    IF score >= 800 THEN 1
    ELSE IF score >= 540 THEN 2
    ELSE IF score >= 400 THEN 3
    ELSE IF score >= 220 THEN 4
    ELSE 5

\* Cap of a projection made without advanced stats and without proxy points.
NO_ADVANCED_CAP == 400

\* The free-throw rule (lines 280-294): ft_pts by FT% band, ft_weight by
\* position in tenths, and their product in tenths of a point.
FtPoints(ft_pct) ==
    IF ft_pct >= 700 THEN 0 ELSE IF ft_pct >= 600 THEN -6 ELSE -12

\* Variant with the reduced weight of the bigs given to everybody.
FtWeight_reduced(pos) == 4

FtWeight(pos) == IF pos \in {"G", "W"} THEN 10 ELSE 4

FtRule(p) ==
    FtPoints(GetOr(p, "ft", 700, 700)) * FtWeight(GetStr(p, "pos", "W"))

\* The score of predict_tier up to the team-strength, minutes and size rules
\* (lines 170-375): <<score in tenths, reasons>>.
BaseRules(p) ==
    LET bpm == GetOr(p, "bpm", 0, 0)
        obpm == GetOr(p, "obpm", 0, 0)
        dbpm == GetOr(p, "dbpm", 0, 0)
        fta_pg == GetOr(p, "fta", 0, 0)
        spg == GetOr(p, "spg", 0, 0)
        stl_per == GetOr(p, "stl_per", 0, 0)
        usg == GetOr(p, "usg", 0, 0)
        ppg == GetOr(p, "ppg", 0, 0)
        rpg == GetOr(p, "rpg", 0, 0)
        mpg == GetOr(p, "mpg", 300, 300)
        quadrant == GetStr(p, "quadrant", "Q1")
        fg == GetOr(p, "fg", 450, 450)
        ftr == GetOr(p, "ftr", 0, 0)
        rim_pct == GetOr(p, "rim_pct", 0, 0)
        tpa == GetOr(p, "tpa", 0, 0)
        pos == GetStr(p, "pos", "W")
        star_count == Len(count_star_signals(p))
        unicorns == detect_unicorn_traits(p)
        quad_mod == QUADRANT_MODIFIERS(quadrant)
        adj_bpm == bpm * quad_mod      \* thousandths
        adj_obpm == obpm * quad_mod    \* thousandths
        adj_ppg == ppg * quad_mod      \* thousandths
        ft_pct == GetOr(p, "ft", 700, 700)
        threeP == GetOr(p, "threeP", 0, 0)
        h == GetOr(p, "h", 780, 780)
        s_bpm == IF adj_bpm >= 12000 THEN 200
                 ELSE IF adj_bpm >= 8000 THEN 140
                 ELSE IF adj_bpm >= 5000 THEN 90
                 ELSE IF adj_bpm >= 3000 THEN 50
                 ELSE IF adj_bpm >= 0 THEN 20
                 ELSE IF adj_bpm >= -2000 THEN -30
                 ELSE -80
        s_obpm == IF adj_obpm > 0
                  THEN IF adj_obpm >= 7000 THEN 160
                       ELSE IF adj_obpm >= 5000 THEN 110
                       ELSE IF adj_obpm >= 3000 THEN 70
                       ELSE IF adj_obpm >= 1000 THEN 30
                       ELSE 0
                  ELSE 0
        s_dbpm == IF dbpm > 0
                  THEN IF dbpm >= 40 THEN 80 ELSE IF dbpm >= 25 THEN 40 ELSE 0
                  ELSE 0
        s_fta == IF fta_pg >= 70 THEN 160
                 ELSE IF fta_pg >= 55 THEN 100
                 ELSE IF fta_pg >= 40 THEN 50
                 ELSE IF fta_pg >= 25 THEN 20
                 ELSE 0
        s_ftr == IF ftr > 0
                 THEN IF ftr >= 500 THEN 80
                      ELSE IF ftr >= 420 THEN 40
                      ELSE IF ftr >= 350 THEN 10
                      ELSE 0
                 ELSE 0
        s_rim == IF rim_pct > 0
                 THEN IF rim_pct >= 720 THEN 60
                      ELSE IF rim_pct >= 650 THEN 30
                      ELSE IF rim_pct < 550 THEN -30
                      ELSE 0
                 ELSE 0
        s_stl == IF stl_per > 0
                 THEN IF stl_per >= 25 THEN 80 ELSE IF stl_per >= 18 THEN 40 ELSE 0
                 ELSE IF spg >= 18 THEN 80 ELSE IF spg >= 13 THEN 40 ELSE 0
        s_usg == IF usg > 0
                 THEN IF usg >= 300 THEN 80
                      ELSE IF usg >= 270 THEN 50
                      ELSE IF usg >= 240 THEN 20
                      ELSE 0
                 ELSE 0
        s_ft == FtRule(p)
        s_ppg == IF adj_ppg >= 20000 THEN 80
                 ELSE IF adj_ppg >= 16000 THEN 40
                 ELSE IF adj_ppg >= 12000 THEN 10
                 ELSE 0
        s_rpg == IF pos = "G" /\ rpg >= 60 THEN 40
                 ELSE IF pos \in {"W", "B"} /\ rpg >= 90 THEN 40
                 ELSE IF rpg >= 50 THEN 10
                 ELSE 0
        s_eff == IF fg >= 520 /\ adj_ppg >= 15000 THEN 40 ELSE 0
        s_tpa == IF tpa > 0 /\ threeP > 0
                 THEN IF tpa >= 50 /\ threeP >= 350 THEN 40
                      ELSE IF tpa >= 30 /\ threeP >= 370 THEN 20
                      ELSE 0
                 ELSE 0
        s_star == IF star_count >= 5 THEN 120
                  ELSE IF star_count >= 3 THEN 60
                  ELSE IF star_count >= 2 THEN 20
                  ELSE 0
        s_uni == 30 * Len(unicorns)
        s_quad == CASE quadrant = "Q2" -> -30
                    [] quadrant = "Q3" -> -70
                    [] quadrant = "Q4" -> -120
                    [] OTHER -> 0
        s_mpg == IF mpg < 220 THEN -50 ELSE 0
        s_h == IF pos = "G" /\ h < 730 THEN -100
               ELSE IF pos = "G" /\ h < 740 THEN -50
               ELSE IF pos = "W" /\ h < 760 THEN -80
               ELSE 0
        reasons ==
            R(adj_bpm >= 3000, "bpm impact")
            \o R(adj_bpm < -2000, "negative impact")
            \o R(adj_obpm >= 3000, "offensive creation")
            \o R(dbpm >= 40, "defensive playmaking (dbpm)")
            \o R(fta_pg >= 55, "free throw rate")
            \o R(ftr >= 500, "aggressive scorer")
            \o R(rim_pct >= 720, "rim finishing")
            \o R(rim_pct > 0 /\ rim_pct < 550, "struggles at the rim")
            \o R(stl_per >= 25 \/ (stl_per <= 0 /\ spg >= 18), "defensive playmaking (steals)")
            \o R(usg >= 300, "high-volume role")
            \o R(ft_pct < 700 /\ ft_pct >= 600, "concerning free throws")
            \o R(ft_pct < 600, "free throws a major concern")
            \o R(adj_ppg >= 20000, "high-level scorer")
            \o R(pos = "G" /\ rpg >= 60, "rebounding guard")
            \o R(fg >= 520 /\ adj_ppg >= 15000, "efficient production")
            \o R(tpa >= 50 /\ threeP >= 350, "proven shooter")
            \o R(star_count >= 3, "star profile")
            \o R(unicorns # <<>>, "rare outlier")
            \o R(quadrant \in {"Q3", "Q4"}, "competition discount")
            \o R(mpg < 220, "limited sample")
            \o R((pos = "G" /\ h < 740) \/ (pos = "W" /\ h < 760), "size concern")
    IN  << s_bpm + s_obpm + s_dbpm + s_fta + s_ftr + s_rim + s_stl + s_usg
           + s_ft + s_ppg + s_rpg + s_eff + s_tpa + s_star + s_uni + s_quad
           + s_mpg + s_h,
           reasons >>

\* has_advanced of line 380.
HasAdvanced(p) == \E s \in {"bpm", "obpm", "fta", "stl_per", "usg"} : Truthy(p, s)

\* The proxy points of the missing-advanced-stats fallback (lines 382-398):
\* <<proxy in tenths, reasons>>.
ProxyRules(p) ==
    LET adj_ppg == GetOr(p, "ppg", 0, 0)
                     * QUADRANT_MODIFIERS(GetStr(p, "quadrant", "Q1"))
        ft_pct == GetOr(p, "ft", 700, 700)
        fta_pg == GetOr(p, "fta", 0, 0)
        spg == GetOr(p, "spg", 0, 0)
        s_score == IF adj_ppg >= 20000 /\ ft_pct >= 780 THEN 120
                   ELSE IF adj_ppg >= 16000 /\ ft_pct >= 750 THEN 60
                   ELSE 0
        s_fta == IF fta_pg >= 55 THEN 80 ELSE IF fta_pg >= 35 THEN 40 ELSE 0
        s_spg == IF spg >= 18 THEN 40 ELSE 0
    IN  << s_score + s_fta + s_spg,
           R(s_score > 0, "scoring profile") \o R(fta_pg >= 55, "gets to the line") >>

\* Lines 380-402: the fallback adds the proxy and caps a proxy-less score.
Fallback(p, score) ==
    IF HasAdvanced(p) THEN <<score, <<>>>>
    ELSE LET proxy == ProxyRules(p)
             s == score + proxy[1]
         IN  IF proxy[1] = 0 /\ s > NO_ADVANCED_CAP
             THEN <<NO_ADVANCED_CAP, proxy[2] \o <<"projection capped">> >>
             ELSE <<s, proxy[2]>>

\* The class-year signal (lines 408-419): <<points in tenths, reasons>>.
ClassYear(p) ==
    LET class_yr == GetOr(p, "age", 0, 0)
    IN  CASE class_yr = 10 -> <<60, <<"freshman">> >>
          [] class_yr = 20 -> <<10, <<>> >>
          [] class_yr = 30 -> <<-20, <<"junior">> >>
          [] class_yr = 40 -> <<-50, <<"senior">> >>
          [] OTHER -> <<0, <<>> >>

\* Lines 431-432: gap_severity = (24 - adj_bpm) / 4 and
\* ec_penalty = min(10, round(4 + gap_severity * 4)), in points; adj_bpm in
\* thousandths.
EcPenalty(adj_bpm) == Min(10, RoundMilli(4000 + (24000 - adj_bpm)))

\* The red flags (lines 427-472): <<points in tenths, reasons>>.
RedFlags(p) ==
    LET has_advanced == HasAdvanced(p)
        bpm == GetOr(p, "bpm", 0, 0)
        obpm == GetOr(p, "obpm", 0, 0)
        dbpm == GetOr(p, "dbpm", 0, 0)
        usg == GetOr(p, "usg", 0, 0)
        fta_pg == GetOr(p, "fta", 0, 0)
        fg == GetOr(p, "fg", 450, 450)
        quadrant == GetStr(p, "quadrant", "Q1")
        quad_mod == QUADRANT_MODIFIERS(quadrant)
        adj_bpm == bpm * quad_mod
        adj_ppg == GetOr(p, "ppg", 0, 0) * quad_mod
        class_yr == GetOr(p, "age", 0, 0)
        ec_penalty == EcPenalty(adj_bpm)
        f1 == has_advanced /\ usg >= 240 /\ adj_bpm < 6000
        f2 == has_advanced /\ obpm >= 50 /\ dbpm < 10
        f3 == adj_ppg >= 14000 /\ fg < 460
        f4 == has_advanced /\ usg >= 240 /\ fta_pg < 30
        f5a == class_yr = 40 /\ adj_ppg >= 14000
        f5b == class_yr = 40 /\ has_advanced /\ adj_bpm >= 7000
        f6 == quadrant \in {"Q3", "Q4"} /\ has_advanced /\ bpm >= 80
    IN  << (IF f1 THEN -10 * ec_penalty ELSE 0)
           + (IF f2 THEN -60 ELSE 0)
           + (IF f3 THEN -80 ELSE 0)
           + (IF f4 THEN -60 ELSE 0)
           + (IF f5a THEN -60 ELSE 0)
           + (IF f5b THEN -30 ELSE 0)
           + (IF f6 THEN (IF quadrant = "Q3" THEN -50 ELSE -80) ELSE 0),
           R(f1, "empty calories") \o R(f2, "offense only")
           \o R(f3, "inefficient volume") \o R(f4, "cannot draw fouls")
           \o R(f5a, "senior scorer") \o R(f5b, "senior peak")
           \o R(f6, "weak team inflation") >>

predict_tier(p) ==
    IF UnicornRaises(p) THEN [called |-> TRUE, raised |-> "TypeError"]
    ELSE
    LET base == BaseRules(p)
        fb == Fallback(p, base[1])
        cy == ClassYear(p)
        rf == RedFlags(p)
        score == fb[1] + cy[1] + rf[1]
    IN  [called |-> TRUE,
         raised |-> "no",
         tier |-> TierOf(score),
         score |-> score,
         reasons |-> base[2] \o fb[2] \o cy[2] \o rf[2],
         star_signals |-> Len(count_star_signals(p)),
         unicorn_traits |-> detect_unicorn_traits(p),
         has_advanced_stats |-> HasAdvanced(p),
         capped |-> fb[1] = NO_ADVANCED_CAP /\ fb[1] < base[1],
         ft_rule |-> FtRule(p)]

(***************************************************************************)
(* Similarity engine: calculate_similarity                                 *)
(***************************************************************************)

MAX_PENALTY == 25

\* One unit of the fixed-point scale of adjusted and normalized values.
UNIT == 10000

\* A stat in tenths on the fixed-point scale.
ToUnit(v) == v * 1000

POSITIONAL_AVGS(pos) ==
    CASE pos = "G" -> [ppg |-> 130, rpg |-> 35, apg |-> 35, spg |-> 12,
                       bpg |-> 2, fg |-> 430, threeP |-> 340, ft |-> 750,
                       tpg |-> 22, ato |-> 16]
      [] pos = "B" -> [ppg |-> 120, rpg |-> 85, apg |-> 12, spg |-> 6,
                       bpg |-> 15, fg |-> 550, threeP |-> 250, ft |-> 650,
                       tpg |-> 18, ato |-> 7]
      [] OTHER -> [ppg |-> 140, rpg |-> 55, apg |-> 20, spg |-> 10,
                   bpg |-> 6, fg |-> 460, threeP |-> 350, ft |-> 720,
                   tpg |-> 18, ato |-> 11]

\* STAT_RANGES[key] = (lo, hi), tenths.
STAT_RANGES ==
    [height |-> <<700, 860>>, weight |-> <<1600, 2800>>, ws |-> <<700, 960>>,
     ft |-> <<400, 950>>, fg |-> <<350, 650>>, threeP |-> <<0, 500>>,
     bpm |-> <<-50, 150>>, obpm |-> <<-50, 120>>, dbpm |-> <<-30, 80>>,
     usg |-> <<120, 400>>, ppg |-> <<0, 300>>, rpg |-> <<0, 150>>,
     apg |-> <<0, 110>>, spg |-> <<0, 35>>, bpg |-> <<0, 50>>,
     tpg |-> <<0, 50>>, mpg |-> <<150, 400>>, ato |-> <<0, 40>>,
     age |-> <<10, 40>>, fta_pg |-> <<0, 100>>, ftm |-> <<0, 80>>,
     stl_per |-> <<0, 50>>, stops |-> <<0, 100>>, rimmade |-> <<0, 50>>,
     rim_att |-> <<0, 80>>, ftr |-> <<150, 600>>, rim_pct |-> <<300, 850>>,
     tpa |-> <<0, 100>>]

\* MAX_STATS.get(key, 1), tenths, for the keys without a range.
MAX_STATS(key) ==
    CASE key = "ts_per" -> 700
      [] key = "adjoe" -> 1350
      [] key = "adrtg" -> 1100
      [] key = "fta" -> 100
      [] OTHER -> 10

Clamp01(x) == Min(Max(x, 0), UNIT)

\* Variant that scales against (0, hi) whatever the low end of the range.
NormalizeInRange_from_zero(val, lo, hi) ==
    IF hi = 0 THEN UNIT \div 2 ELSE Clamp01((val * 10) \div hi)

\* Lines 41-44: the branch of range_normalize for a key of STAT_RANGES; lo
\* and hi in tenths.
NormalizeInRange(val, lo, hi) ==
    IF hi = lo THEN UNIT \div 2
    ELSE Clamp01(((val - ToUnit(lo)) * 10) \div (hi - lo))

\* Lines 45-46: the branch of range_normalize for the other keys.
NormalizeByMax(val, max_val) ==
    IF max_val # 0 THEN Clamp01((val * 10) \div max_val) ELSE 0

\* range_normalize(val, key): val on the fixed-point scale, result in 0..UNIT.
range_normalize(val, key) ==
    IF key \in DOMAIN STAT_RANGES
    THEN NormalizeInRange(val, STAT_RANGES[key][1], STAT_RANGES[key][2])
    ELSE NormalizeByMax(val, MAX_STATS(key))

\* Variant without the branch for a zero average.
get_outlier_multiplier_unguarded(val, avg) ==
    IF val * 10 > 14 * ToUnit(avg) THEN 30
    ELSE IF val * 10 > 12 * ToUnit(avg) THEN 15
    ELSE IF val * 10 < 7 * ToUnit(avg) THEN 15
    ELSE 10

\* get_outlier_multiplier(val, avg) in tenths; val on the fixed-point scale,
\* avg in tenths (the positional averages are all positive).  The ratio is
\* compared exactly; the code compares the float quotient, which differs only
\* when val/avg falls exactly on 1.4, 1.2 or 0.7.
get_outlier_multiplier(val, avg) ==
    IF avg = 0 THEN 10
    ELSE IF val * 10 > 14 * ToUnit(avg) THEN 30
    ELSE IF val * 10 > 12 * ToUnit(avg) THEN 15
    ELSE IF val * 10 < 7 * ToUnit(avg) THEN 15
    ELSE 10

\* The damped per-30 factor of normalize_to_30, in units of 1/10000.
\* factor = 30/mpg; damped = 1 + (factor - 1) * 0.7 = (0.3 mpg + 21) / mpg;
\* below 22 minutes it is multiplied by 0.88 + 0.12 * (mpg / 22).
DampedFactor(mpg_in) ==
    LET mpg == OrDefault(mpg_in, 300)
        damped == ((3 * mpg + 2100) * 1000) \div mpg
        low == ((19360 + 12 * mpg) * 5) \div 11
    IN  IF mpg < 220 THEN (damped * low) \div UNIT ELSE damped

\* normalize_to_30 for one counting stat: (get(key, 0) or 0) * damped_factor,
\* on the fixed-point scale.
normalize_to_30(p, key, mpg_in) ==
    (GetOr(p, key, 0, 0) * DampedFactor(mpg_in)) \div 10

\* apg / tpg if tpg > 0 else apg, on the fixed-point scale.
Ato(p) ==
    LET tpg == Get(p, "tpg", 0)
        apg == Get(p, "apg", 0)
    IN  IF tpg > 0 THEN (apg * UNIT) \div tpg ELSE ToUnit(apg)

\* adj_a / adj_b: per-30 stats, scoring scaled by the quadrant modifier.
Adjusted(p) ==
    LET mpg == Get(p, "mpg", 300)
        quad_mod == QUADRANT_MODIFIERS(GetStr(p, "quadrant", "Q1"))
    IN  [ppg |-> (normalize_to_30(p, "ppg", mpg) * quad_mod) \div 100,
         rpg |-> normalize_to_30(p, "rpg", mpg),
         apg |-> normalize_to_30(p, "apg", mpg),
         spg |-> normalize_to_30(p, "spg", mpg),
         bpg |-> normalize_to_30(p, "bpg", mpg)]

WeightKeys == {"ppg", "rpg", "apg", "spg", "bpg", "fg", "threeP", "ft", "ato",
               "height", "weight", "ws", "ath", "age", "mpg", "bpm", "obpm",
               "dbpm", "fta", "fta_pg", "stl_per", "usg", "ftr", "rim_pct",
               "tpa", "tpg"}

\* A weight table: the listed keys in tenths, every other key missing.
Table(t) == [k \in WeightKeys |-> IF k \in DOMAIN t THEN t[k] ELSE ABSENT]

ORIGINAL_WEIGHTS ==
    Table([ppg |-> 10, rpg |-> 10, apg |-> 10, spg |-> 10, bpg |-> 10,
           fg |-> 8, threeP |-> 20, ft |-> 15, ato |-> 15, height |-> 15,
           weight |-> 8, ws |-> 15, ath |-> 20, age |-> 12, mpg |-> 15,
           bpm |-> 10, obpm |-> 10, dbpm |-> 5, fta |-> 5, stl_per |-> 5,
           usg |-> 5])

V2_WEIGHTS ==
    Table([bpm |-> 50, obpm |-> 40, ft |-> 40, fta_pg |-> 35, stl_per |-> 30,
           usg |-> 30, dbpm |-> 20, height |-> 30, ws |-> 30, weight |-> 6,
           spg |-> 15, ppg |-> 5, rpg |-> 3, apg |-> 3, bpg |-> 3, fg |-> 5,
           threeP |-> 2, ato |-> 5, age |-> 12, mpg |-> 3, ath |-> 0])

V3_WEIGHTS ==
    Table([bpm |-> 50, ftr |-> 40, fta_pg |-> 30, fg |-> 32, age |-> 30,
           height |-> 25, rim_pct |-> 25, obpm |-> 20, dbpm |-> 18, ft |-> 15,
           rpg |-> 15, usg |-> 13, ppg |-> 10, stl_per |-> 8, spg |-> 7,
           bpg |-> 7, tpg |-> 5, apg |-> 4, ato |-> 5, mpg |-> 4, tpa |-> 3,
           threeP |-> 3, weight |-> 0, ws |-> 0, ath |-> 0])

\* ARCHETYPE_WEIGHT_MODS.get(archetype, {}), multipliers in tenths.
ARCHETYPE_WEIGHT_MODS(archetype) ==
    CASE archetype = "Scoring Guard" ->
            Table([usg |-> 13, fta_pg |-> 13, obpm |-> 12, rpg |-> 5, bpg |-> 3])
      [] archetype = "Playmaking Guard" ->
            Table([apg |-> 15, ato |-> 15, stl_per |-> 13, ppg |-> 5])
      [] archetype = "3&D Wing" ->
            Table([threeP |-> 15, spg |-> 13, dbpm |-> 13, ppg |-> 5,
                   usg |-> 7, fta_pg |-> 7])
      [] archetype = "Scoring Wing" ->
            Table([height |-> 13, usg |-> 12, fta_pg |-> 12, apg |-> 5,
                   threeP |-> 7])
      [] archetype = "Skilled Big" ->
            Table([ft |-> 13, obpm |-> 13, fg |-> 12, apg |-> 5, spg |-> 7])
      [] archetype = "Athletic Big" ->
            Table([dbpm |-> 15, bpg |-> 20, ft |-> 5, threeP |-> 3, obpm |-> 7])
      [] OTHER -> Table(<<>>)

\* A weight table in hundredths.
Hundredths(t) ==
    [k \in WeightKeys |-> IF t[k] = ABSENT THEN ABSENT ELSE t[k] * 10]

\* Lines 709-713: "base_weights[stat] = base_weights[stat] * mult" for every
\* stat of weight_mods that base_weights has; base_weights in hundredths.
ApplyMods(base_weights, weight_mods) ==
    [k \in WeightKeys |->
        IF base_weights[k] = ABSENT THEN ABSENT
        ELSE IF weight_mods[k] # ABSENT
        THEN (base_weights[k] * weight_mods[k]) \div 10
        ELSE base_weights[k]]

\* Lines 695-713: the base weights of the chosen version with the archetype
\* modifiers applied to the keys the table has; hundredths.
BaseWeights(version, weight_mods) ==
    LET base == CASE version = "v3" -> V3_WEIGHTS
                  [] version = "v2" -> V2_WEIGHTS
                  [] OTHER -> ORIGINAL_WEIGHTS
    IN  ApplyMods(Hundredths(base), weight_mods)

\* base_weights.get(k, d), d in hundredths.
WGet(bw, k, d) == IF bw[k] = ABSENT THEN d ELSE bw[k]

\* calculate_identity_map: outlier multipliers of the prospect, tenths.
calculate_identity_map(adj_a, a, input_ato, pos_avg) ==
    [ppg |-> get_outlier_multiplier(adj_a.ppg, pos_avg.ppg),
     rpg |-> get_outlier_multiplier(adj_a.rpg, pos_avg.rpg),
     apg |-> get_outlier_multiplier(adj_a.apg, pos_avg.apg),
     spg |-> get_outlier_multiplier(adj_a.spg, pos_avg.spg),
     bpg |-> get_outlier_multiplier(adj_a.bpg, pos_avg.bpg),
     threeP |-> get_outlier_multiplier(ToUnit(Get(a, "threeP", 330)), pos_avg.threeP),
     ft |-> get_outlier_multiplier(ToUnit(Get(a, "ft", 700)), pos_avg.ft),
     ato |-> get_outlier_multiplier(input_ato, pos_avg.ato)]

\* dynamic_weights (lines 743-783), thousandths.
DynamicWeightsFrom(a, version, bw) ==
    LET adj_a == Adjusted(a)
        pos_avg == POSITIONAL_AVGS(GetStr(a, "pos", "W"))
        im == calculate_identity_map(adj_a, a, Ato(a), pos_avg)
        h_a == Get(a, "h", 780)
        ws_a == Get(a, "ws", h_a + 40)
        ws_multiplier == IF version = "v3" THEN 10
                         ELSE IF h_a > 0 /\ ws_a * 100 >= 106 * h_a THEN 25
                         ELSE 10
        stocks == adj_a.spg + adj_a.bpg
        ppg_weight == IF stocks > 25000 /\ adj_a.ppg < 100000 THEN 300
                      ELSE WGet(bw, "ppg", 100) * im.ppg
    IN  [ppg |-> ppg_weight,
         rpg |-> WGet(bw, "rpg", 80) * im.rpg,
         apg |-> WGet(bw, "apg", 80) * im.apg,
         spg |-> WGet(bw, "spg", 180) * im.spg,
         bpg |-> WGet(bw, "bpg", 50) * im.bpg,
         fg |-> WGet(bw, "fg", 50)
                  * get_outlier_multiplier(ToUnit(Get(a, "fg", 450)), pos_avg.fg),
         threeP |-> WGet(bw, "threeP", 50) * im.threeP,
         ft |-> WGet(bw, "ft", 40) * im.ft,
         ato |-> WGet(bw, "ato", 80) * im.ato,
         height |-> WGet(bw, "height", 150) * 10,
         weight |-> 0,
         ws |-> WGet(bw, "ws", 150) * ws_multiplier,
         age |-> WGet(bw, "age", 120) * 10,
         mpg |-> WGet(bw, "mpg", 100) * 10,
         bpm |-> WGet(bw, "bpm", 250) * 10,
         obpm |-> WGet(bw, "obpm", 200) * 10,
         dbpm |-> WGet(bw, "dbpm", 100) * 10,
         fta_pg |-> WGet(bw, "fta_pg", 350) * 10,
         stl_per |-> WGet(bw, "stl_per", 150) * 10,
         usg |-> WGet(bw, "usg", 100) * 10,
         ftr |-> WGet(bw, "ftr", 250) * 10,
         rim_pct |-> WGet(bw, "rim_pct", 200) * 10,
         tpa |-> WGet(bw, "tpa", 30) * 10]

DynamicWeights(a, version, weight_mods) ==
    DynamicWeightsFrom(a, version, BaseWeights(version, weight_mods))

\* pos_map.get(pos, 1)
PosIndex(pos) == CASE pos = "G" -> 0 [] pos = "B" -> 2 [] OTHER -> 1

\* Variant without the passing-big exception.
PosPenalty_no_passing_big(a, b) ==
    LET adj_a == Adjusted(a)
        pos_diff == Abs(PosIndex(GetStr(a, "pos", "W"))
                        - PosIndex(GetStr(b, "pos", "W")))
        pos_penalty == IF pos_diff = 2 THEN 15 ELSE IF pos_diff = 1 THEN 5 ELSE 0
    IN  IF a["pos"] = "G" /\ adj_a.rpg > 7 * UNIT /\ b["pos"] \in {"W", "B"}
        THEN 0
        ELSE pos_penalty

\* The position-gap penalty with its unicorn exceptions (lines 791-805).
PosPenalty(a, b) ==
    LET adj_a == Adjusted(a)
        pos_diff == Abs(PosIndex(GetStr(a, "pos", "W"))
                        - PosIndex(GetStr(b, "pos", "W")))
        pos_penalty == IF pos_diff = 2 THEN 15 ELSE IF pos_diff = 1 THEN 5 ELSE 0
    IN  IF a["pos"] = "B" /\ adj_a.apg > 4 * UNIT /\ b["pos"] \in {"G", "W"}
        THEN 0
        ELSE IF a["pos"] = "G" /\ adj_a.rpg > 7 * UNIT /\ b["pos"] \in {"W", "B"}
        THEN 0
        ELSE pos_penalty

\* The penalty rules that fire, in the order of the code (lines 806-848):
\* a sequence of <<reason, amount>>.
PenaltyRules(a, b) ==
    LET adj_a == Adjusted(a)
        adj_b == Adjusted(b)
        pos_penalty == PosPenalty(a, b)
        input_usage == adj_a.ppg + adj_a.apg
        match_usage == adj_b.ppg + adj_b.apg
        h_a == Get(a, "h", 780)
        h_b == Get(b, "h", 780)
        fg_a == Get(a, "fg", 450)
        fg_b == Get(b, "fg", 450)
        three_a == Get(a, "threeP", 330)
        three_b == Get(b, "threeP", 330)
        Rule(cond, label, amount) == IF cond THEN << <<label, amount>> >> ELSE <<>>
    IN  Rule(pos_penalty = 15, "Position gap (15)", 15)
        \o Rule(pos_penalty = 5, "Position gap (5)", 5)
        \o Rule(adj_a.ppg > 18 * UNIT /\ fg_a < 420 /\ fg_b > 480,
                "Chucker vs efficient", 8)
        \o Rule(Get(a, "ft", 700) < 550 /\ Get(b, "ft", 700) > 720,
                "Broken shot mismatch", 8)
        \o Rule(input_usage < 12 * UNIT /\ match_usage > 25 * UNIT,
                "Usage gap", 8)
        \o Rule(Abs(h_a - h_b) > 40, "Height mismatch", 10)
        \o Rule(fg_a > 500 /\ adj_a.ppg < 10 * UNIT /\ fg_b > 500
                  /\ adj_b.ppg > 18 * UNIT,
                "Low-volume efficiency mismatch", 5)
        \o Rule((three_a > 400 /\ three_b < 280) \/ (three_a < 250 /\ three_b > 400),
                "Shooting archetype mismatch", 5)

RECURSIVE SumAmounts(_)
SumAmounts(rules) ==
    IF rules = <<>> THEN 0 ELSE Head(rules)[2] + SumAmounts(Tail(rules))

\* Variant without the cap.
CappedPenalty_uncapped(total) == total

\* penalty = min(penalty, MAX_PENALTY)
CappedPenalty(total) == Min(total, MAX_PENALTY)

\* (na - nb) ** 2 * w, in units of 1/100000; w in thousandths.
Term(na, nb, w) == ((((na - nb) * (na - nb)) \div 1000) * w) \div 1000

\* (na - 0.5) ** 2 * w * 0.5: the comp has no value for the stat.
MidpointTerm(na, w) ==
    ((((na - UNIT \div 2) * (na - UNIT \div 2)) \div 1000) * w) \div 2000

\* The term of an advanced stat (lines 892-919); 0 when no term is added.
AdvancedTerm(val_a, val_b, key, w) ==
    IF val_a # 0 /\ val_b # 0
    THEN Term(range_normalize(ToUnit(val_a), key),
              range_normalize(ToUnit(val_b), key), w)
    ELSE IF val_a # 0 /\ val_b = 0
    THEN MidpointTerm(range_normalize(ToUnit(val_a), key), w)
    ELSE 0

\* diffs (lines 867-919), in units of 1/100000.
Diffs(a, b, dw) ==
    LET adj_a == Adjusted(a)
        adj_b == Adjusted(b)
        h_a == Get(a, "h", 780)
        h_b == Get(b, "h", 780)
        ws_a == Get(a, "ws", h_a + 40)
        ws_b == Get(b, "ws", h_b + 40)
        N(v, key) == range_normalize(v, key)
        Raw(p, key, norm_key) == range_normalize(ToUnit(Get(p, key, 0)), norm_key)
    IN  [ppg |-> Term(N(adj_a.ppg, "ppg"), N(adj_b.ppg, "ppg"), dw.ppg),
         rpg |-> Term(N(adj_a.rpg, "rpg"), N(adj_b.rpg, "rpg"), dw.rpg),
         apg |-> Term(N(adj_a.apg, "apg"), N(adj_b.apg, "apg"), dw.apg),
         spg |-> Term(N(adj_a.spg, "spg"), N(adj_b.spg, "spg"), dw.spg),
         bpg |-> Term(N(adj_a.bpg, "bpg"), N(adj_b.bpg, "bpg"), dw.bpg),
         fg |-> Term(Raw(a, "fg", "fg"), Raw(b, "fg", "fg"), dw.fg),
         threeP |-> Term(Raw(a, "threeP", "threeP"), Raw(b, "threeP", "threeP"),
                         dw.threeP),
         ft |-> Term(Raw(a, "ft", "ft"), Raw(b, "ft", "ft"), dw.ft),
         ato |-> Term(N(Ato(a), "ato"), N(Ato(b), "ato"), dw.ato),
         height |-> Term(N(ToUnit(h_a), "height"), N(ToUnit(h_b), "height"),
                         dw.height),
         weight |-> Term(Raw(a, "w", "weight"),
                         N(ToUnit(Get(b, "w", 2000)), "weight"), dw.weight),
         ws |-> Term(N(ToUnit(ws_a), "ws"), N(ToUnit(ws_b), "ws"), dw.ws),
         age |-> Term(Raw(a, "age", "age"),
                      N(ToUnit(Get(b, "age", 40)), "age"), dw.age),
         mpg |-> Term(Raw(a, "mpg", "mpg"), Raw(b, "mpg", "mpg"), dw.mpg),
         bpm |-> AdvancedTerm(Get(a, "bpm", 0), Get(b, "bpm", 0), "bpm", dw.bpm),
         obpm |-> AdvancedTerm(Get(a, "obpm", 0), Get(b, "obpm", 0), "obpm", dw.obpm),
         dbpm |-> AdvancedTerm(Get(a, "dbpm", 0), Get(b, "dbpm", 0), "dbpm", dw.dbpm),
         stl_per |-> AdvancedTerm(Get(a, "stl_per", 0), Get(b, "stl_per", 0),
                                  "stl_per", dw.stl_per),
         usg |-> AdvancedTerm(Get(a, "usg", 0), Get(b, "usg", 0), "usg", dw.usg),
         fta_pg |-> AdvancedTerm(Get(a, "fta", 0), Get(b, "fta", 0), "fta_pg",
                                 dw.fta_pg),
         ftr |-> AdvancedTerm(Get(a, "ftr", 0), Get(b, "ftr", 0), "ftr", dw.ftr),
         rim_pct |-> AdvancedTerm(Get(a, "rim_pct", 0), Get(b, "rim_pct", 0),
                                  "rim_pct", dw.rim_pct),
         tpa |-> AdvancedTerm(Get(a, "tpa", 0), Get(b, "tpa", 0), "tpa", dw.tpa)]

RECURSIVE SumOver(_, _)
SumOver(f, keys) ==
    IF keys = {} THEN 0
    ELSE LET k == CHOOSE x \in keys : TRUE
         IN  f[k] + SumOver(f, keys \ {k})

\* Largest r in lo..hi with r * r <= n.
RECURSIVE ISqrt(_, _, _)
ISqrt(n, lo, hi) ==
    IF lo >= hi THEN lo
    ELSE LET mid == (lo + hi + 1) \div 2
         IN  IF mid * mid <= n THEN ISqrt(n, mid, hi) ELSE ISqrt(n, lo, mid - 1)

\* max_dist = 6.0: a summed distance of 36 or more leaves no similarity.
MAX_DIST_SQ == 3600000

\* max(0, 100 - raw_dist / max_dist * 100), in hundredths of a point;
\* total is the sum of the diffs in units of 1/100000.
RawSimilarity(total) ==
    IF total >= MAX_DIST_SQ THEN 0
    ELSE Max(0, 10000 - ISqrt((total * 250) \div 9, 0, 10000))

\* Variant without the floor at 0 after the penalty is subtracted.
FinalScore_unfloored(similarity, penalty) ==
    (similarity - 100 * penalty + 5) \div 10

\* max(0, similarity - penalty), then round(similarity, 1): tenths.
FinalScore(similarity, penalty) == (Max(0, similarity - 100 * penalty) + 5) \div 10

\* The body of calculate_similarity after base_weights is built.
SimilarityFrom(a, b, version, base_weights) ==
    LET dw == DynamicWeightsFrom(a, version, base_weights)
        rules == PenaltyRules(a, b)
        penalty == CappedPenalty(SumAmounts(rules))
        diffs == Diffs(a, b, dw)
        total == SumOver(diffs, DOMAIN diffs)
    IN  [called |-> TRUE,
         score |-> FinalScore(RawSimilarity(total), penalty),
         weights |-> dw,
         penalty |-> penalty,
         penalty_reasons |-> [i \in 1..Len(rules) |-> rules[i][1]],
         diffs |-> diffs,
         version |-> version]

calculate_similarity(a, b, version, weight_mods) ==
    SimilarityFrom(a, b, version, BaseWeights(version, weight_mods))

\* The stat keys of a prospect dict.
StatKeys == {"bpm", "obpm", "dbpm", "fta", "spg", "stl_per", "usg", "ppg",
             "rpg", "apg", "bpg", "tpg", "mpg", "fg", "ftr", "rim_pct", "tpa",
             "ft", "threeP", "h", "ws", "w", "age"}

\* A prospect dict with no key at all.
EmptyProfile ==
    [k \in StatKeys \cup {"pos", "quadrant"} |->
        IF k \in StatKeys THEN ABSENT ELSE "absent"]

\* A prospect as the entry form of the app builds it: every key present.
StarGuard ==
    [pos |-> "G", quadrant |-> "Q1", h |-> 770, ws |-> 810, w |-> 2000,
     age |-> 10, ppg |-> 205, rpg |-> 65, apg |-> 55, spg |-> 19, bpg |-> 5,
     tpg |-> 25, mpg |-> 330, fg |-> 540, threeP |-> 380, ft |-> 820,
     bpm |-> 125, obpm |-> 75, dbpm |-> 45, fta |-> 72, stl_per |-> 30,
     usg |-> 305, ftr |-> 500, rim_pct |-> 720, tpa |-> 55]

StarterWing ==
    [pos |-> "W", quadrant |-> "Q1", h |-> 790, ws |-> 830, w |-> 2000,
     age |-> 20, ppg |-> 165, rpg |-> 60, apg |-> 25, spg |-> 12, bpg |-> 8,
     tpg |-> 20, mpg |-> 310, fg |-> 530, threeP |-> 370, ft |-> 760,
     bpm |-> 85, obpm |-> 52, dbpm |-> 30, fta |-> 45, stl_per |-> 20,
     usg |-> 245, ftr |-> 380, rim_pct |-> 660, tpa |-> 45]

RoleBig ==
    [pos |-> "B", quadrant |-> "Q2", h |-> 820, ws |-> 860, w |-> 2000,
     age |-> 30, ppg |-> 115, rpg |-> 80, apg |-> 15, spg |-> 7, bpg |-> 16,
     tpg |-> 18, mpg |-> 260, fg |-> 560, threeP |-> 0, ft |-> 620,
     bpm |-> 55, obpm |-> 25, dbpm |-> 30, fta |-> 35, stl_per |-> 15,
     usg |-> 200, ftr |-> 450, rim_pct |-> 680, tpa |-> 0]

\* A box-score line without any advanced stat (an older database record).
BoxScoreWing ==
    [EmptyProfile EXCEPT !.pos = "W", !.quadrant = "Q1", !.h = 800,
        !.ppg = 220, !.rpg = 90, !.apg = 30, !.spg = 15, !.bpg = 20,
        !.tpg = 25, !.mpg = 320, !.fg = 550, !.threeP = 360, !.ft = 750,
        !.dbpm = 45, !.ftr = 500, !.rim_pct = 750, !.tpa = 60]

Profiles == {EmptyProfile, StarGuard, StarterWing, RoleBig, BoxScoreWing}

\* Values a field is edited to (tenths).
EditValues(k) ==
    CASE k = "bpm" -> {-30, 90}
      [] k = "obpm" -> {20, 60}
      [] k = "dbpm" -> {5, 40}
      [] k = "fta" -> {20, 60}
      [] k = "spg" -> {15, 19}
      [] k = "stl_per" -> {0, 26}
      [] k = "usg" -> {250, 310}
      [] k = "ppg" -> {150, 220}
      [] k = "rpg" -> {40, 95}
      [] k = "apg" -> {20, 45}
      [] k = "bpg" -> {5, 20}
      [] k = "mpg" -> {200, 360}
      [] k = "fg" -> {440, 550}
      [] k = "ftr" -> {300, 520}
      [] k = "rim_pct" -> {500, 740}
      [] k = "tpa" -> {20, 60}
      [] k = "ft" -> {0, 500, 650, 800}
      [] k = "threeP" -> {300, 400}
      [] k = "h" -> {720, 780}
      [] k = "age" -> {10, 40}
      [] OTHER -> {}

\* Keys that a caller may hold as null (JSON null / None).
NullableKeys == {"bpm", "ft", "ppg", "rpg", "apg", "bpg", "spg", "threeP", "h"}

TierKeys == StatKeys \ {"tpg", "ws", "w"}

\* The analyst changes one stat of the prospect; the old projection is stale.
EditStat ==
    /\ edits < MaxEdits
    /\ \E k \in TierKeys :
         \E v \in EditValues(k) \cup {ABSENT}
                   \cup (IF k \in NullableKeys THEN {NONE} ELSE {}) :
            /\ player[k] # v
            /\ player' = [player EXCEPT ![k] = v]
    /\ edits' = edits + 1
    /\ prediction' = NoResult
    /\ UNCHANGED <<compVars, simVars, frameVars, fnVars>>

\* The analyst changes the position or the team-strength quadrant.
EditLabel ==
    /\ edits < MaxEdits
    /\ \/ \E v \in {"G", "W", "B", "C", "absent"} :
             player["pos"] # v /\ player' = [player EXCEPT !["pos"] = v]
       \/ \E v \in {"Q1", "Q2", "Q3", "Q4", "absent"} :
             player["quadrant"] # v /\ player' = [player EXCEPT !["quadrant"] = v]
    /\ edits' = edits + 1
    /\ prediction' = NoResult
    /\ UNCHANGED <<compVars, simVars, frameVars, fnVars>>

\* prediction = predict_tier(prospect, pos_avgs)
PredictTier ==
    /\ prediction = NoResult
    /\ prediction' = predict_tier(player)
    /\ UNCHANGED <<player, edits, compVars, simVars, frameVars, fnVars>>

\* Prospects and database records the similarity engine is run on.
PassingBig ==
    [RoleBig EXCEPT !.apg = 42, !.mpg = 300, !.tpg = 20, !.quadrant = "Q1"]

SmallGuard ==
    [pos |-> "G", quadrant |-> "Q3", h |-> 720, ws |-> 760, w |-> 2000,
     age |-> 40, ppg |-> 80, rpg |-> 25, apg |-> 20, spg |-> 9, bpg |-> 1,
     tpg |-> 15, mpg |-> 300, fg |-> 520, threeP |-> 240, ft |-> 500,
     bpm |-> 15, obpm |-> 5, dbpm |-> 10, fta |-> 15, stl_per |-> 17,
     usg |-> 160, ftr |-> 250, rim_pct |-> 560, tpa |-> 15]

StarBig ==
    [pos |-> "B", quadrant |-> "Q1", h |-> 830, ws |-> 870, w |-> 2000,
     age |-> 10, ppg |-> 220, rpg |-> 105, apg |-> 35, spg |-> 10, bpg |-> 22,
     tpg |-> 28, mpg |-> 320, fg |-> 560, threeP |-> 410, ft |-> 760,
     bpm |-> 110, obpm |-> 65, dbpm |-> 45, fta |-> 70, stl_per |-> 18,
     usg |-> 290, ftr |-> 520, rim_pct |-> 730, tpa |-> 30]

\* A record built without a college row: no advanced stats (all stored as 0).
BRefOnly ==
    [EmptyProfile EXCEPT !.pos = "G", !.h = 780, !.ws = 820, !.w = 2000,
        !.age = 40, !.ppg = 145, !.rpg = 45, !.apg = 45, !.spg = 0, !.bpg = 0,
        !.tpg = 0, !.mpg = 300, !.fg = 470, !.threeP = 350, !.ft = 780,
        !.bpm = 0, !.obpm = 0, !.dbpm = 0, !.fta = 0, !.stl_per = 0, !.usg = 0]

\* A prospect at the top of every stat range and a record at the bottom of
\* them: the largest distance the engine can be asked to measure.
EliteGuard ==
    [pos |-> "G", quadrant |-> "Q1", h |-> 690, ws |-> 700, w |-> 1600,
     age |-> 10, ppg |-> 300, rpg |-> 140, apg |-> 100, spg |-> 30,
     bpg |-> 40, tpg |-> 50, mpg |-> 300, fg |-> 700, threeP |-> 500,
     ft |-> 1000, bpm |-> 160, obpm |-> 130, dbpm |-> 90, fta |-> 100,
     stl_per |-> 50, usg |-> 400, ftr |-> 700, rim_pct |-> 900, tpa |-> 100]

RawBig ==
    [pos |-> "B", quadrant |-> "Q4", h |-> 880, ws |-> 960, w |-> 2800,
     age |-> 40, ppg |-> 5, rpg |-> 5, apg |-> 1, spg |-> 1, bpg |-> 1,
     tpg |-> 1, mpg |-> 300, fg |-> 300, threeP |-> 10, ft |-> 300,
     bpm |-> -60, obpm |-> -40, dbpm |-> -30, fta |-> 1, stl_per |-> 1,
     usg |-> 100, ftr |-> 100, rim_pct |-> 300, tpa |-> 1]

Prospects == {EliteGuard, PassingBig, SmallGuard, EmptyProfile}
Candidates == {StarterWing, StarBig, BRefOnly, RawBig}

\* The weight configurations a comparison is run under: every version
\* without modifiers (find_top_matches), V3 with each archetype's modifiers
\* (find_archetype_matches in the app), and the older versions with the
\* modifier tables that produce their largest weights.
ModTables == {"none", "Scoring Guard", "Playmaking Guard", "3&D Wing",
              "Scoring Wing", "Skilled Big", "Athletic Big"}
CallConfigs ==
    ({"original", "v2", "v3"} \X {"none"}) \cup ({"v3"} \X ModTables)
    \cup {<<"v2", "Skilled Big">>, <<"original", "Athletic Big">>}

MaxSimEdits == 1

\* Values a stat of the prospect is edited to before a comparison (tenths).
SimEditValues(k) ==
    CASE k \in {"mpg", "apg", "ppg", "ft", "h", "stl_per"} -> EditValues(k)
      [] k = "tpg" -> {0}
      [] k = "ws" -> {850}
      [] OTHER -> {}

\* One stat or label of the prospect is changed.
EditProspect ==
    /\ sim_edits < MaxSimEdits
    /\ \/ \E k \in StatKeys : \E v \in SimEditValues(k) \cup {ABSENT} :
             player_a[k] # v /\ player_a' = [player_a EXCEPT ![k] = v]
       \/ \E v \in {"G", "W", "B", "C", "absent"} :
             player_a["pos"] # v /\ player_a' = [player_a EXCEPT !["pos"] = v]
       \/ \E v \in {"Q1", "Q2", "Q3", "Q4", "absent"} :
             player_a["quadrant"] # v
             /\ player_a' = [player_a EXCEPT !["quadrant"] = v]
    /\ sim_edits' = sim_edits + 1
    /\ sim' = NoResult
    /\ UNCHANGED <<player_b, compVars, tierVars, frameVars, fnVars>>

\* The candidate is an unmodified copy of the prospect: the same field values
\* stored as a database record, absent fields absent in both.
CopyProspect ==
    /\ player_b # player_a
    /\ player_b' = player_a
    /\ sim' = NoResult
    /\ UNCHANGED <<player_a, sim_edits, compVars, tierVars, frameVars, fnVars>>

\* sim = calculate_similarity(prospect, player, pos_avgs, use_v2,
\*                            weight_mods=..., use_v3=...)
CalculateSimilarity ==
    /\ sim = NoResult
    /\ \E cfg \in CallConfigs :
          sim' = calculate_similarity(player_a, player_b, cfg[1],
                                      ARCHETYPE_WEIGHT_MODS(cfg[2]))
    /\ UNCHANGED <<player_a, player_b, sim_edits, compVars, tierVars, frameVars, fnVars>>

IdleTier == player = EmptyProfile /\ edits = 0 /\ prediction = NoResult
IdleSim ==
    /\ player_a = EmptyProfile /\ player_b = EmptyProfile
    /\ sim_edits = 0 /\ sim = NoResult
IdleComp == player_db = <<>> /\ comps = NoResult /\ top_matches = NoResult
IdleFrame ==
    /\ tables = NoResult /\ records = <<>> /\ calls = <<>>
    /\ args = NoResult /\ ret = NoResult

InitComp == IdleComp /\ IdleTier /\ IdleSim /\ IdleFrame

NextComp == LoadPlayer \/ FindArchetypeMatches \/ FindTopMatches

SpecComp == InitComp /\ [][NextComp]_vars

InitTier ==
    /\ player \in Profiles /\ edits = 0 /\ prediction = NoResult
    /\ IdleComp /\ IdleSim /\ IdleFrame

NextTier == EditStat \/ EditLabel \/ PredictTier

SpecTier == InitTier /\ [][NextTier]_vars

InitSim ==
    /\ player_a \in Prospects /\ player_b \in Candidates
    /\ sim_edits = 0 /\ sim = NoResult
    /\ IdleComp /\ IdleTier /\ IdleFrame

NextSim == EditProspect \/ CopyProspect \/ CalculateSimilarity

SpecSim == InitSim /\ [][NextSim]_vars

(***************************************************************************)
(* The objects the functions can reach: the module-level tables of         *)
(* config.py and the dicts they are handed.  A call reads them, builds its  *)
(* working dicts and returns; "calls" keeps every call with its result.     *)
(***************************************************************************)
MaxCalls == 3

\* config.py: the tables imported by similarity.py, weights in hundredths.
ConfigTables ==
    [v2 |-> Hundredths(V2_WEIGHTS),
     v3 |-> Hundredths(V3_WEIGHTS),
     mods |-> [m \in ModTables |-> ARCHETYPE_WEIGHT_MODS(m)]]

\* The dicts handed to the calls: two prospects and two database players.
FrameRecords == <<PassingBig, SmallGuard, StarterWing, RoleBig>>
FrameProspects == {1, 2}
FrameCandidates == {3}

\* The configurations of the calls: find_top_matches (V3, no modifiers),
\* find_archetype_matches (V3 with the archetype's table), V2 with a table
\* and the original weights.
FrameConfigs ==
    {<<"v3", "none">>, <<"v3", "Scoring Guard">>, <<"v2", "Skilled Big">>,
     <<"original", "none">>}

\* Variant where base_weights is the module-level table itself.
BaseWeightsObject_aliased(version) ==
    IF version \in {"v2", "v3"} THEN version ELSE "local"

\* Lines 695-707: the object base_weights names.  dict(V3_WEIGHTS) and
\* dict(V2_WEIGHTS) are new dicts and the original weights are a dict
\* literal, so in every branch it is local to the call.
BaseWeightsObject(version) == "local"

\* Lines 695-713 on the objects: base_weights is filled from the table of
\* the version, the modifier loop assigns into base_weights, and the rest of
\* the function computes from it.
CallSimilarity ==
    /\ Len(calls) < MaxCalls
    /\ \E a \in FrameProspects, b \in FrameCandidates, cfg \in FrameConfigs :
          LET version == cfg[1]
              weight_mods == tables.mods[cfg[2]]
              source == CASE version = "v3" -> tables.v3
                          [] version = "v2" -> tables.v2
                          [] OTHER -> Hundredths(ORIGINAL_WEIGHTS)
              base_weights == ApplyMods(source, weight_mods)
              object == BaseWeightsObject(version)
          IN  /\ tables' = IF object = "local" THEN tables
                            ELSE [tables EXCEPT ![object] = base_weights]
              /\ calls' = Append(calls,
                     [fn |-> "calculate_similarity", args |-> <<a, b, cfg>>,
                      result |-> SimilarityFrom(records[a], records[b],
                                                version, base_weights)])
    /\ UNCHANGED <<records, compVars, tierVars, simVars, fnVars>>

\* predict_tier(player): reads the dict, assigns to none of its keys and to
\* no table.
CallPredictTier ==
    /\ Len(calls) < MaxCalls
    /\ \E a \in FrameProspects :
          calls' = Append(calls, [fn |-> "predict_tier", args |-> <<a>>,
                                  result |-> predict_tier(records[a])])
    /\ UNCHANGED <<tables, records, compVars, tierVars, simVars, fnVars>>

InitFrame ==
    /\ tables = ConfigTables /\ records = FrameRecords /\ calls = <<>>
    /\ args = NoResult /\ ret = NoResult
    /\ IdleComp /\ IdleTier /\ IdleSim

(***************************************************************************)
(* Archetype classification: classify_archetype.  Stats in tenths; the     *)
(* rubric scores are plain integers.                                        *)
(***************************************************************************)

\* s.get("rim_att", 0) or 0: the key is in the stats of a database record,
\* never in the prospect dict of the app.
RimAtt(p) ==
    IF "rim_att" \in DOMAIN p THEN GetOr(p, "rim_att", 0, 0) ELSE 0

\* One rung of an if/elif ladder: the points of the first threshold reached.
Pts(cond, pts, otherwise) == IF cond THEN pts ELSE otherwise

\* Lines 589-610: the 3&D Wing rubric.
ThreeAndDScore(p) ==
    LET pos == GetStr(p, "pos", "W")
        h == Get(p, "h", 780)
        ppg == GetOr(p, "ppg", 0, 0)
        spg == GetOr(p, "spg", 0, 0)
        bpg == GetOr(p, "bpg", 0, 0)
        threeP == GetOr(p, "threeP", 330, 330)
        ft == GetOr(p, "ft", 700, 700)
        dbpm == GetOr(p, "dbpm", 0, 0)
    IN  Pts(pos = "W", 8, Pts(pos = "G" /\ h >= 760, 4, 0))
        + Pts(threeP >= 380, 7, Pts(threeP >= 350, 5, Pts(threeP >= 330, 3, 0)))
        + Pts(ft >= 780, 3, Pts(ft >= 730, 1, 0))
        + Pts(spg >= 15, 5, Pts(spg >= 10, 3, Pts(spg >= 8, 1, 0)))
        + Pts(bpg >= 8, 2, 0)
        + Pts(dbpm >= 30, 3, Pts(dbpm >= 15, 1, 0))
        + Pts(ppg < 120, 3, Pts(ppg < 150, 1,
              Pts(ppg >= 200, -5, Pts(ppg >= 180, -3, 0))))

\* Lines 537-547: ato and guard_like.
GuardLike(p) ==
    LET pos == GetStr(p, "pos", "W")
        h == Get(p, "h", 780)
        ppg == GetOr(p, "ppg", 0, 0)
        rpg == GetOr(p, "rpg", 0, 0)
        apg == GetOr(p, "apg", 0, 0)
    IN  /\ pos = "W"
        /\ \/ h <= 760
           \/ h <= 780 /\ (apg >= 35 \/ (ppg >= 180 /\ rpg < 50))

\* Lines 549-678: the six rubric scores, in the order they are stored.
ArchetypeScores(p) ==
    LET pos == GetStr(p, "pos", "W")
        h == Get(p, "h", 780)
        ppg == GetOr(p, "ppg", 0, 0)
        rpg == GetOr(p, "rpg", 0, 0)
        apg == GetOr(p, "apg", 0, 0)
        spg == GetOr(p, "spg", 0, 0)
        bpg == GetOr(p, "bpg", 0, 0)
        tpg == GetOr(p, "tpg", 0, 0)
        threeP == GetOr(p, "threeP", 330, 330)
        ft == GetOr(p, "ft", 700, 700)
        fta_pg == GetOr(p, "fta", 0, 0)
        usg == GetOr(p, "usg", 0, 0)
        bpm == GetOr(p, "bpm", 0, 0)
        obpm == GetOr(p, "obpm", 0, 0)
        dbpm == GetOr(p, "dbpm", 0, 0)
        rim_att == RimAtt(p)
        guard_like == GuardLike(p)
        \* ato >= x, for ato = apg / tpg if tpg > 0 else apg; x in tenths
        AtoGe(x) == IF tpg > 0 THEN apg * 10 >= x * tpg ELSE apg >= x
        sg_score ==
            Pts(pos = "G", 12, Pts(guard_like, 8, 0))
            + Pts(ppg >= 200, 10, Pts(ppg >= 160, 6, Pts(ppg >= 120, 3, 0)))
            + Pts(usg >= 280, 6, Pts(usg >= 240, 3, 0))
            + Pts(fta_pg >= 50, 4, Pts(fta_pg >= 30, 2, 0))
            + Pts(ft >= 780, 3, 0)
            + Pts(threeP >= 350, 2, 0)
            + Pts(apg >= 40, 2, 0)
        pg_score ==
            Pts(pos = "G", 12, Pts(guard_like /\ apg >= 30, 8,
                Pts(pos = "W" /\ apg >= 50, 6, 0)))
            + Pts(apg >= 60, 10, Pts(apg >= 45, 7, Pts(apg >= 35, 4,
                  Pts(apg >= 25, 2, 0))))
            + Pts(AtoGe(25), 6, Pts(AtoGe(18), 4, Pts(AtoGe(13), 2, 0)))
            + Pts(spg >= 15, 3, 0)
            + Pts(GetOr(p, "stl_per", 0, 0) >= 25, 3, 0)
            + Pts(ppg < 140, 2, 0)
        sw_score ==
            Pts(pos = "W", 10, Pts(pos = "B" /\ h <= 810, 5,
                Pts(pos = "G" /\ h >= 770, 5, 0)))
            + Pts(ppg >= 200, 10, Pts(ppg >= 160, 7, Pts(ppg >= 130, 4,
                  Pts(ppg >= 100, 1, 0))))
            + Pts(usg >= 280, 6, Pts(usg >= 240, 4, Pts(usg >= 200, 2, 0)))
            + Pts(fta_pg >= 50, 4, Pts(fta_pg >= 30, 2, 0))
            + Pts(h >= 790, 3, Pts(h >= 770, 1, 0))
            + Pts(rpg >= 70, 3, Pts(rpg >= 50, 1, 0))
        sb_score ==
            Pts(pos = "B", 10, Pts(pos = "W" /\ h >= 810, 5, 0))
            + Pts(ft >= 780, 8, Pts(ft >= 720, 6, Pts(ft >= 650, 3, 0)))
            + Pts(threeP >= 330, 6, Pts(threeP >= 250, 3,
                  Pts(threeP >= 150, 1, 0)))
            + Pts(rpg >= 80, 3, Pts(rpg >= 60, 1, 0))
            + Pts(bpm >= 60, 4, Pts(bpm >= 30, 2, 0))
            + Pts(obpm >= 40, 4, Pts(obpm >= 20, 2, 0))
            + Pts(ppg >= 150, 2, 0)
        ab_score ==
            Pts(pos = "B", 10, Pts(pos = "W" /\ h >= 820, 5, 0))
            + Pts(bpg >= 25, 8, Pts(bpg >= 15, 5, Pts(bpg >= 10, 3, 0)))
            + Pts(rim_att >= 40, 6, Pts(rim_att >= 25, 4,
                  Pts(rim_att >= 10, 2, 0)))
            + Pts(rpg >= 90, 5, Pts(rpg >= 70, 3, Pts(rpg >= 50, 1, 0)))
            + Pts(dbpm >= 50, 5, Pts(dbpm >= 30, 3, Pts(dbpm >= 10, 1, 0)))
            + Pts(ft < 550, 4, Pts(ft < 650, 2, Pts(ft >= 780, -4,
                  Pts(ft >= 720, -2, 0))))
    IN  <<sg_score, pg_score, ThreeAndDScore(p), sw_score,
          sb_score, ab_score>>

\* Variant of the ranking that lets the archetype defined last win a tie.
FirstRanked_last_defined(scores, among) ==
    CHOOSE i \in among :
        \A j \in among :
            scores[j] < scores[i] \/ (scores[j] = scores[i] /\ j <= i)

\* Line 680: sorted(scores.items(), key=lambda x: -x[1]) is stable, so the
\* head of the ranking is the first stored archetype with the top score.
FirstRanked(scores, among) ==
    CHOOSE i \in among :
        \A j \in among :
            scores[j] < scores[i] \/ (scores[j] = scores[i] /\ j >= i)

\* classify_archetype(player): ranked[0][0], ranked[0][1], ranked[1][0].
classify_archetype(p) ==
    LET scores == ArchetypeScores(p)
        first == FirstRanked(scores, 1..6)
        second == FirstRanked(scores, (1..6) \ {first})
    IN  [primary |-> Archetypes[first], score |-> scores[first],
         secondary |-> Archetypes[second], scores |-> scores]

(***************************************************************************)
(* The weight experiments of src/weight_lab.py on the shared tables.        *)
(***************************************************************************)

\* weight_lab.py: the candidate table of the experiments, in tenths.
V4_WEIGHTS ==
    Table([bpm |-> 50, obpm |-> 40, ft |-> 40, fta |-> 35, stl_per |-> 30,
           usg |-> 30, dbpm |-> 20, height |-> 20, ws |-> 20, weight |-> 10,
           spg |-> 15, ppg |-> 5, rpg |-> 3, apg |-> 3, bpg |-> 3, fg |-> 5,
           threeP |-> 2, ato |-> 5, age |-> 5, mpg |-> 3])

\* The dicts the experiments pass as weights_dict: the V2_WEIGHTS imported
\* from config, which is the shared table itself, and V4_WEIGHTS.
WeightArgs == {"V2_WEIGHTS", "V4_WEIGHTS"}

\* The entries of the dict weights_dict names, in hundredths.
WeightsOf(weights_dict, shared) ==
    IF weights_dict = "V2_WEIGHTS" THEN shared ELSE Hundredths(V4_WEIGHTS)

\* same_arch and the scoring loop of run_similarity_with_weights: every
\* record of the archetype is compared under the V2 branch of
\* calculate_similarity, which copies the shared table, without modifiers.
RECURSIVE LabResults(_, _, _, _, _)
LabResults(db, i, prospect, arch, shared) ==
    IF i > Len(db) THEN <<>>
    ELSE IF classify_archetype(db[i]).primary = arch
         THEN <<[player |-> i,
                 sim |-> SimilarityFrom(prospect, db[i], "v2",
                             ApplyMods(shared, Table(<<>>))).score]>>
              \o LabResults(db, i + 1, prospect, arch, shared)
         ELSE LabResults(db, i + 1, prospect, arch, shared)

\* run_similarity_with_weights(prospect, db, pos_avgs, weights_dict): the
\* shared table is copied, cleared and updated from weights_dict, the comps
\* are scored, and the finally clause clears it and updates it from the copy.
RunSimilarityWithWeights ==
    /\ Len(calls) < MaxCalls
    /\ \E a \in FrameProspects, weights_dict \in WeightArgs :
          LET original == tables.v2
              cleared == Table(<<>>)
              swapped == WeightsOf(weights_dict, cleared)
              arch == classify_archetype(records[a]).primary
              results == SortDesc(LabResults(records, 1, records[a], arch,
                                             swapped))
          IN  /\ tables' = [tables EXCEPT !.v2 = original]
              /\ calls' = Append(calls,
                     [fn |-> "run_similarity_with_weights",
                      args |-> <<a, weights_dict>>,
                      result |-> <<arch, TakeN(results, TOP_N)>>])
    /\ UNCHANGED <<records, compVars, tierVars, simVars, fnVars>>

NextFrame == CallSimilarity \/ CallPredictTier \/ RunSimilarityWithWeights

SpecFrame == InitFrame /\ [][NextFrame]_vars

(***************************************************************************)
(* The helper functions of the comparison applied to single inputs.        *)
(***************************************************************************)
MaxValue == 1500

\* Stat values in tenths, and the same values on the fixed-point scale as
\* range_normalize receives them (the per-30 values fall between tenths).
Values == {v \in -100..MaxValue : v % 50 = 0}
NormValues == {ToUnit(v) + o : v \in Values, o \in {0, 333}}

\* Keys with a range, keys with a maximum only, and a key with neither.
NormKeys == {"height", "ft", "bpm", "ppg", "spg", "adjoe", "fta", "unlisted"}

RangeNormalizeArgs ==
    [fn : {"range_normalize"}, val : NormValues, key : NormKeys]

\* range_normalize(val, key)
RangeNormalize ==
    /\ args.fn = "range_normalize" /\ ~ret.called
    /\ ret' = [called |-> TRUE, value |-> range_normalize(args.val, args.key)]
    /\ UNCHANGED <<args, compVars, tierVars, simVars, tables, records, calls>>

\* Values around the thresholds of the guard positional average of points
\* (13.0), and positional averages including a zero one.
OutlierArgs ==
    [fn : {"get_outlier_multiplier"},
     val : {ToUnit(v) + o : v \in {0, 91, 130, 156, 182, 300}, o \in {-1, 0, 1}},
     avg : {0, 130}]

\* get_outlier_multiplier(val, avg)
OutlierMultiplier ==
    /\ args.fn = "get_outlier_multiplier" /\ ~ret.called
    /\ ret' = [called |-> TRUE,
               value |-> get_outlier_multiplier(args.val, args.avg)]
    /\ UNCHANGED <<args, compVars, tierVars, simVars, tables, records, calls>>

\* Players that differ in minutes, rebounds, assists and turnovers only.
HelperPlayers ==
    {[EmptyProfile EXCEPT !["mpg"] = m, !["rpg"] = r, !["apg"] = a,
                          !["tpg"] = t] :
        m \in {ABSENT, NONE, 0, 150, 300, 350}, r \in {0, 55},
        a \in {ABSENT, 0, 35}, t \in {ABSENT, 0, 20}}

Per30Args == [fn : {"normalize_to_30"}, p : HelperPlayers]

\* Lines 719-730: the per-30 stats of one side of the comparison.
Per30 ==
    /\ args.fn = "normalize_to_30" /\ ~ret.called
    /\ ret' = [called |-> TRUE, value |-> Adjusted(args.p)]
    /\ UNCHANGED <<args, compVars, tierVars, simVars, tables, records, calls>>

AtoArgs == [fn : {"ato"}, p : HelperPlayers]

\* Lines 733-737: input_ato of the prospect, db_ato of the candidate.
AssistTurnover ==
    /\ args.fn = "ato" /\ ~ret.called
    /\ ret' = [called |-> TRUE, value |-> Ato(args.p)]
    /\ UNCHANGED <<args, compVars, tierVars, simVars, tables, records, calls>>

\* Players for classify_archetype: database stats with rim attempts, and
\* prospects of the app, whose dict has no rim_att key.
ArchPlayers ==
    LET Flat == {[EmptyProfile EXCEPT !["pos"] = pos, !["h"] = h,
                     !["ppg"] = ppg, !["apg"] = apg, !["ft"] = ft,
                     !["threeP"] = threeP, !["bpg"] = bpg] :
                    pos \in {"G", "W", "B"}, h \in {750, 780, 820},
                    ppg \in {0, 130, 210}, apg \in {10, 60},
                    ft \in {500, 700, 800}, threeP \in {200, 360},
                    bpg \in {0, 20}}
    IN  Flat \cup {p @@ [rim_att |-> 40] : p \in Flat}

ClassifyArgs == [fn : {"classify_archetype"}, p : ArchPlayers]

\* archetype, arch_score, secondary = classify_archetype(prospect)
ClassifyArchetype ==
    /\ args.fn = "classify_archetype" /\ ~ret.called
    /\ ret' = [called |-> TRUE, value |-> classify_archetype(args.p)]
    /\ UNCHANGED <<args, compVars, tierVars, simVars, tables, records, calls>>

FnArgs ==
    RangeNormalizeArgs \cup OutlierArgs \cup Per30Args \cup AtoArgs
    \cup ClassifyArgs

InitFn ==
    /\ args \in FnArgs /\ ret = NoResult
    /\ tables = NoResult /\ records = <<>> /\ calls = <<>>
    /\ IdleComp /\ IdleTier /\ IdleSim

NextFn ==
    \/ RangeNormalize \/ OutlierMultiplier \/ Per30 \/ AssistTurnover
    \/ ClassifyArchetype

SpecFn == InitFn /\ [][NextFn]_vars


(***************************************************************************)
(* Properties of comp selection (SpecComp)                                 *)
(***************************************************************************)

\* The candidates that pass the pool filter for the prospect's archetype.
PoolSet == {i \in 1..Len(player_db) : InPool(player_db[i], comps.archetype)}

\* m is a highest-similarity member of the pool candidates at cands.
BestOf(m, cands) ==
    /\ m # NoComp
    /\ m.idx \in cands /\ m = player_db[m.idx]
    /\ \A i \in cands : player_db[i].sim <= m.sim

\* C1: in every CompSet returned by find_archetype_matches the tier of
\* ceiling_comp is <= the tier of floor_comp whenever both exist, and the
\* returned ceiling_tier is <= floor_tier.
C1_CeilingNotWorseThanFloor ==
    comps.called =>
        /\ (comps.ceiling_comp # NoComp /\ comps.floor_comp # NoComp)
              => comps.ceiling_comp.tier <= comps.floor_comp.tier
        /\ comps.ceiling_tier <= comps.floor_tier

\* A call in which the searches picked a ceiling of worse tier than the floor
\* and the sanity check exchanged them.
C1_Witness ==
    /\ comps.called /\ comps.swapped
    /\ comps.ceiling_comp.tier < comps.floor_comp.tier

\* The ceiling search chain of the claim C5, applied to a comp c: the best
\* candidate of the narrow window, else the best candidate with tier <= anchor,
\* else the closest comp.
CeilingChain(c) ==
    LET pred == comps.predicted_tier
        Window == {i \in PoolSet : /\ pred - 2 <= player_db[i].tier
                                   /\ player_db[i].tier <= pred - 1
                                   /\ player_db[i].sim >= 300}
        Wide == {i \in PoolSet : player_db[i].tier <= pred
                                 /\ player_db[i].sim >= 300}
    IN  IF Window # {} THEN BestOf(c, Window)
        ELSE IF Wide # {} THEN BestOf(c, Wide)
        ELSE c = comps.closest_comp

\* C5 as stated: the returned ceiling_comp is the pick of the ceiling chain.
C5_Original == comps.called => CeilingChain(comps.ceiling_comp)

\* C5 amended: the pick of the ceiling chain is returned as ceiling_comp,
\* unless its tier is worse than the tier of the floor pick; then the sanity
\* check returns it as floor_comp and the floor pick as ceiling_comp.
C5_CeilingChainBeforeSwap ==
    comps.called =>
        /\ ~comps.swapped => CeilingChain(comps.ceiling_comp)
        /\ comps.swapped =>
              /\ CeilingChain(comps.floor_comp)
              /\ comps.floor_comp.tier > comps.ceiling_comp.tier

\* Anchor 3, a tier-1 candidate below the threshold, nobody of tier 1-2 at or
\* above it, and a tier-3 candidate at or above it: the tier <= 3 search
\* supplies the ceiling, not the closest comp.
C5_Witness ==
    /\ comps.called /\ comps.predicted_tier = 3 /\ ~comps.swapped
    /\ \E i \in PoolSet : player_db[i].tier = 1 /\ player_db[i].sim < 300
    /\ \A i \in PoolSet : player_db[i].tier <= 2 => player_db[i].sim < 300
    /\ comps.ceiling_comp # NoComp
    /\ comps.ceiling_comp.tier = 3 /\ comps.ceiling_comp.sim >= 300
    /\ comps.ceiling_comp # comps.closest_comp

\* C6: with an empty filtered pool the call returns no closest, ceiling or
\* floor comp, no matches, pool_size 0, the supplied anchor or the default 4
\* as predicted_tier, and ceiling_tier = floor_tier = predicted_tier.
C6_EmptyPool ==
    (comps.called /\ PoolSet = {}) =>
        /\ comps.closest_comp = NoComp
        /\ comps.ceiling_comp = NoComp
        /\ comps.floor_comp = NoComp
        /\ comps.matches = <<>>
        /\ comps.pool_size = 0
        /\ comps.predicted_tier =
              (IF comps.anchor_tier = NONE THEN 4 ELSE comps.anchor_tier)
        /\ comps.ceiling_tier = comps.predicted_tier
        /\ comps.floor_tier = comps.predicted_tier

\* A call without anchor on a database whose players are all filtered out.
C6_Witness ==
    /\ comps.called /\ Len(player_db) > 0 /\ PoolSet = {}
    /\ comps.anchor_tier = NONE /\ comps.predicted_tier = 4

FloorChain(c) ==
    LET pred == comps.predicted_tier
        Window == {i \in PoolSet : /\ pred + 1 <= player_db[i].tier
                                   /\ player_db[i].tier <= pred + 2
                                   /\ player_db[i].sim >= 300}
        Wide == {i \in PoolSet : player_db[i].tier >= pred
                                 /\ player_db[i].sim >= 300}
    IN  IF Window # {} THEN BestOf(c, Window)
        ELSE IF Wide # {} THEN BestOf(c, Wide)
        ELSE c = comps.closest_comp

\* C19 as stated: the returned floor_comp is the pick of the floor chain.
C19_Original == comps.called => FloorChain(comps.floor_comp)

\* C19 amended: the pick of the floor chain is returned as floor_comp,
\* unless its tier is better than the tier of the ceiling pick; then the
\* sanity check returns it as ceiling_comp and the ceiling pick as floor_comp.
C19_FloorChainBeforeSwap ==
    comps.called =>
        /\ ~comps.swapped => FloorChain(comps.floor_comp)
        /\ comps.swapped =>
              /\ FloorChain(comps.ceiling_comp)
              /\ comps.ceiling_comp.tier < comps.floor_comp.tier

\* Anchor 3, nobody of tier 4-5 at or above the threshold but a tier-5
\* candidate below it, and a tier-3 candidate at or above it that is not the
\* closest comp: the tier >= 3 search supplies the floor.
C19_Witness ==
    /\ comps.called /\ comps.predicted_tier = 3 /\ ~comps.swapped
    /\ \E i \in PoolSet : player_db[i].tier = 5 /\ player_db[i].sim < 300
    /\ \A i \in PoolSet : player_db[i].tier >= 4 => player_db[i].sim < 300
    /\ comps.floor_comp # NoComp
    /\ comps.floor_comp.tier = 3 /\ comps.floor_comp.sim >= 300
    /\ comps.floor_comp # comps.closest_comp

\* The qualified pool of the claim C20: not excluded by name, drafted
\* within COMP_YEAR_RANGE, and not a small sample by the recorded games
\* (25) and minutes (20.0).
QualifiedPool ==
    {i \in 1..Len(player_db) :
        /\ player_db[i].name \notin EXCLUDE_PLAYERS
        /\ player_db[i].draft_year >= COMP_YEAR_RANGE[1]
        /\ player_db[i].draft_year <= COMP_YEAR_RANGE[2]
        /\ player_db[i].gp >= 250 /\ player_db[i].mpg >= 200}

\* C20: find_top_matches returns the top_n highest-scoring players of the
\* qualified pool (all of them when there are fewer) in non-increasing
\* score order, and returns nobody from outside the qualified pool.
C20_TopMatches ==
    top_matches.called =>
        LET m == top_matches.matches
            returned == {m[k].idx : k \in DOMAIN m}
        IN  /\ Len(m) = Min(top_matches.top_n, Cardinality(QualifiedPool))
            /\ \A k \in DOMAIN m : m[k] = player_db[m[k].idx]
            /\ \A k \in 1..(Len(m) - 1) : m[k].sim >= m[k + 1].sim
            /\ returned \subseteq QualifiedPool
            /\ \A i \in QualifiedPool \ returned : \A j \in returned :
                  player_db[i].sim <= player_db[j].sim

\* The filtered pool of the claim C21: college stats, not excluded by name,
\* drafted within COMP_YEAR_RANGE, past the sample-size filter (games and
\* minutes as the filter reads them: a missing or zero value counts as 30),
\* and classified with the prospect's archetype.
FilteredPool ==
    {i \in 1..Len(player_db) :
        LET p == player_db[i]
        IN  /\ p.has_college_stats = TRUE
            /\ p.name \notin EXCLUDE_PLAYERS
            /\ p.draft_year \in COMP_YEAR_RANGE[1]..COMP_YEAR_RANGE[2]
            /\ p.gp = 0 \/ p.gp >= 250
            /\ p.mpg = 0 \/ p.mpg >= 200
            /\ p.arch = comps.archetype}

\* c is a record of the filtered pool.
PoolMember(c) == c.idx \in FilteredPool /\ c = player_db[c.idx]

\* C21: every entry of matches and every closest, ceiling and floor comp that
\* is returned is a member of the filtered pool; pool_size is the size of the
\* filtered pool; closest_comp has the maximum similarity score of the pool.
C21_CompsFromPool ==
    comps.called =>
        /\ \A k \in DOMAIN comps.matches : PoolMember(comps.matches[k])
        /\ \A c \in {comps.closest_comp, comps.ceiling_comp, comps.floor_comp} :
              c # NoComp => PoolMember(c)
        /\ comps.pool_size = Cardinality(FilteredPool)
        /\ FilteredPool # {} =>
              /\ comps.closest_comp # NoComp
              /\ \A i \in FilteredPool :
                    player_db[i].sim <= comps.closest_comp.sim
        /\ FilteredPool = {} => comps.closest_comp = NoComp

\* A database with a higher-scoring player of another archetype and a
\* BRef-only player next to one pool member, which is every returned comp.
C21_Witness ==
    /\ comps.called /\ Len(player_db) = 3 /\ comps.pool_size = 1
    /\ \E i \in 1..3 : /\ player_db[i].arch # comps.archetype
                        /\ player_db[i].sim > comps.closest_comp.sim
    /\ \E i \in 1..3 : ~player_db[i].has_college_stats
    /\ Len(comps.matches) = 1 /\ comps.matches[1] = comps.closest_comp
    /\ comps.ceiling_comp = comps.closest_comp
    /\ comps.floor_comp = comps.closest_comp

\* A ranked list keeps players with equal scores in pool order.
TiesInPoolOrder(ranked) ==
    \A k \in 1..(Len(ranked) - 1) :
        \/ ranked[k].sim > ranked[k + 1].sim
        \/ ranked[k].sim = ranked[k + 1].sim /\ ranked[k].idx < ranked[k + 1].idx

\* No pool candidate with the score and tier of c stands before c in the pool.
FirstOfItsTies(c) ==
    \A i \in PoolSet :
        (player_db[i].sim = c.sim /\ player_db[i].tier = c.tier) => c.idx <= i

\* C22: the ranked lists of find_top_matches and find_archetype_matches keep
\* candidates with equal scores in pool order; the closest comp is the first
\* in the pool of the candidates with the top score, and the ceiling and
\* floor comps are the first in the pool of the candidates tied with them.
C22_StableTies ==
    /\ top_matches.called => TiesInPoolOrder(top_matches.matches)
    /\ comps.called =>
          /\ TiesInPoolOrder(comps.results)
          /\ TiesInPoolOrder(comps.matches)
          /\ comps.closest_comp # NoComp =>
                \A i \in PoolSet :
                   player_db[i].sim = comps.closest_comp.sim
                      => comps.closest_comp.idx <= i
          /\ comps.ceiling_comp # NoComp => FirstOfItsTies(comps.ceiling_comp)
          /\ comps.floor_comp # NoComp => FirstOfItsTies(comps.floor_comp)

\* Three pool candidates with the same score: the first of the pool is the
\* closest comp although another tier follows, and the floor comp is the
\* first of the two tied candidates of the worse tier.
C22_Witness ==
    /\ comps.called /\ comps.pool_size = 3
    /\ \A i \in 1..3 : player_db[i].sim = 600
    /\ player_db[1].tier = 2 /\ player_db[2].tier = 4 /\ player_db[3].tier = 4
    /\ comps.anchor_tier = 3
    /\ comps.closest_comp.idx = 1 /\ comps.floor_comp.idx = 2

\* The pool candidates at or above the comp threshold whose tier is tier, or
\* on the side of it that dir names ("better": <=, "worse": >=).
EligibleComps(dir, tier) ==
    {i \in PoolSet :
        /\ player_db[i].sim >= COMP_MIN_SCORE
        /\ IF dir = "better" THEN player_db[i].tier <= tier
                              ELSE player_db[i].tier >= tier}

\* C30: the returned range brackets the anchor whenever eligible comps exist:
\* with a pool candidate of tier <= predicted_tier at similarity >= 30 the
\* ceiling_tier is <= predicted_tier, and with one of tier >= predicted_tier
\* the floor_tier is >= predicted_tier, also when ceiling and floor were
\* swapped.
C30_RangeBracketsAnchor ==
    comps.called =>
        /\ EligibleComps("better", comps.predicted_tier) # {}
              => comps.ceiling_tier <= comps.predicted_tier
        /\ EligibleComps("worse", comps.predicted_tier) # {}
              => comps.floor_tier >= comps.predicted_tier

\* Anchor 4 with a tier-3 candidate in the ceiling window and nobody of tier
\* 4-5 at the threshold: the closest comp, of tier 1, becomes the floor pick,
\* the two are swapped and the ceiling is the tier-1 comp.
C30_Witness ==
    /\ comps.called /\ comps.swapped /\ comps.predicted_tier = 4
    /\ EligibleComps("better", 4) # {} /\ EligibleComps("worse", 4) = {}
    /\ comps.ceiling_tier = 1 /\ comps.floor_tier = 3

(***************************************************************************)
(* Properties of tier projection (SpecTier)                                *)
(***************************************************************************)

Returned == prediction.called /\ prediction.raised = "no"

\* C4: predict_tier returns a tier in 1..5 fixed by the final score: tier 1
\* iff score >= 80, tier 2 iff 54 <= score < 80, tier 3 iff 40 <= score < 54,
\* tier 4 iff 22 <= score < 40, tier 5 otherwise.
C4_TierStaircase ==
    Returned =>
        /\ prediction.tier \in 1..5
        /\ prediction.tier = 1 <=> prediction.score >= 800
        /\ prediction.tier = 2 <=> (540 <= prediction.score /\ prediction.score < 800)
        /\ prediction.tier = 3 <=> (400 <= prediction.score /\ prediction.score < 540)
        /\ prediction.tier = 4 <=> (220 <= prediction.score /\ prediction.score < 400)
        /\ prediction.tier = 5 <=> prediction.score < 220

\* A projection in the upper half of the tier-3 band.
C4_Witness ==
    Returned /\ prediction.tier = 3 /\ prediction.score >= 500

\* C7: predict_tier never fails, whatever stats are missing or null, and the
\* empty profile gives tier 5 with no reasons.
C7_NeverFails ==
    prediction.called =>
        /\ prediction.raised = "no"
        /\ player = EmptyProfile =>
              (prediction.tier = 5 /\ prediction.reasons = <<>>)

\* The proxy rule set awards nothing and no advanced stat is present.
NoAdvancedNoProxy ==
    /\ \A s \in {"bpm", "obpm", "fta", "stl_per", "usg"} : player[s] = ABSENT
    /\ ProxyRules(player)[1] = 0

\* C8: without advanced stats and without proxy points the final score is at
\* most 40.
C8_CappedAt40 ==
    (Returned /\ NoAdvancedNoProxy) => prediction.score <= 400

(***************************************************************************)
(* Properties of the similarity engine (SpecSim)                           *)
(***************************************************************************)

\* C2: the score returned by calculate_similarity lies in 0..100, for every
\* weight version and modifier table.
C2_ScoreInRange ==
    sim.called => (0 <= sim.score /\ sim.score <= 1000)

\* A comparison whose penalty is larger than the similarity left by the
\* distance, so that the score is held at 0.
C2_Witness ==
    /\ sim.called /\ sim.score = 0 /\ sim.penalty > 0
    /\ RawSimilarity(SumOver(sim.diffs, DOMAIN sim.diffs)) < 100 * sim.penalty

\* The amount each penalty rule adds when it fires.
RuleAmount(reason) ==
    CASE reason = "Position gap (15)" -> 15
      [] reason = "Position gap (5)" -> 5
      [] reason = "Chucker vs efficient" -> 8
      [] reason = "Broken shot mismatch" -> 8
      [] reason = "Usage gap" -> 8
      [] reason = "Height mismatch" -> 10
      [] reason = "Low-volume efficiency mismatch" -> 5
      [] reason = "Shooting archetype mismatch" -> 5

RECURSIVE FiredTotal(_)
FiredTotal(reasons) ==
    IF reasons = <<>> THEN 0
    ELSE RuleAmount(Head(reasons)) + FiredTotal(Tail(reasons))

\* C3: the reported penalty is min(25, sum of the amounts of the rules that
\* fired) and never exceeds 25.
C3_PenaltyCapped ==
    sim.called =>
        /\ sim.penalty = Min(25, FiredTotal(sim.penalty_reasons))
        /\ sim.penalty <= 25

\* Several rules fire together and their amounts add up to more than the cap.
C3_Witness ==
    /\ sim.called /\ Len(sim.penalty_reasons) >= 3
    /\ FiredTotal(sim.penalty_reasons) > 25 /\ sim.penalty = 25

\* C9: a profile compared with an unmodified copy of itself triggers no
\* penalty rule and scores at least 99.
C9_SelfSimilarity ==
    (sim.called /\ player_b = player_a) =>
        (sim.penalty = 0 /\ sim.penalty_reasons = <<>> /\ sim.score >= 990)

PositionGapListed ==
    \E i \in 1..Len(sim.penalty_reasons) :
        sim.penalty_reasons[i] \in {"Position gap (15)", "Position gap (5)"}

\* C10 as stated: a Big prospect with more than 4.0 assists per game never
\* gets a position-gap penalty against a Guard or a Wing.
C10_Original ==
    (sim.called /\ player_a["pos"] = "B" /\ player_a["apg"] > 40
        /\ player_b["pos"] \in {"G", "W"}) => ~PositionGapListed

\* C10 amended: the exception is decided on the per-30 assists (assists per
\* game times the damped minutes factor of normalize_to_30): a Big prospect
\* whose per-30 assists exceed 4.0 gets no position-gap penalty against a
\* Guard or a Wing, and the gap is not part of the penalty.
C10_PassingBigException ==
    (sim.called /\ player_a["pos"] = "B" /\ Adjusted(player_a).apg > 4 * UNIT
        /\ player_b["pos"] \in {"G", "W"}) =>
        /\ ~PositionGapListed
        /\ sim.penalty = Min(25, FiredTotal(sim.penalty_reasons))

\* A passing Big compared with a Guard: the gap of two positions is waived.
C10_Witness ==
    /\ sim.called /\ player_a["pos"] = "B" /\ player_b["pos"] = "G"
    /\ Adjusted(player_a).apg > 4 * UNIT
    /\ ~PositionGapListed

(***************************************************************************)
(* Properties of the rules of predict_tier (SpecTier)                      *)
(***************************************************************************)

KnownPos == player["pos"] \in {"G", "W", "B"}

\* The weight the free-throw rule is stated to use, in tenths.
StatedFtWeight == IF player["pos"] \in {"G", "W"} THEN 10 ELSE 4

TierAdvancedKeys ==
    {"bpm", "obpm", "dbpm", "stl_per", "usg", "fta", "ftr", "rim_pct", "tpa"}

\* C13: an advanced stat present with the value 0 is not handled like an
\* absent one: the projection of a profile holding such a zero differs from
\* the projection of the profile that differs only in lacking the stat.
C13_ZeroDiffersFromAbsent ==
    Returned =>
        \A k \in TierAdvancedKeys :
            player[k] = 0 =>
                predict_tier([player EXCEPT ![k] = ABSENT]) # prediction

\* C18 (position clause, free-throw penalty weight): a position label other
\* than G, W and B is handled as the default position Wing, so the free-throw
\* rule contributes what it contributes to the same player labelled W.
C18_UnknownPositionAsWing ==
    (Returned /\ player["pos"] \notin {"G", "W", "B", "absent"}) =>
        prediction.ft_rule = FtRule([player EXCEPT !["pos"] = "W"])

\* C23: good free-throw shooting earns no bonus: a profile with FT% >= 70
\* gets the score of the same profile with any other FT% >= 70.
C23_NoFreeThrowBonus ==
    (Returned /\ player["ft"] >= 700) =>
        \A ft \in {700, 780, 820, 900} :
            predict_tier([player EXCEPT !["ft"] = ft]).score = prediction.score

\* Q1 is the strongest competition context and Q4 the weakest.
QuadrantRank(q) ==
    CASE q = "Q1" -> 1 [] q = "Q2" -> 2 [] q = "Q3" -> 3 [] q = "Q4" -> 4

\* C24: a weaker competition context never raises the score: the same
\* profile in a weaker quadrant scores at most what it scores in its own.
C24_WeakerContextNotHigher ==
    (Returned /\ player["quadrant"] \in {"Q1", "Q2", "Q3", "Q4"}) =>
        \A q \in {"Q1", "Q2", "Q3", "Q4"} :
            QuadrantRank(q) > QuadrantRank(player["quadrant"]) =>
                predict_tier([player EXCEPT !["quadrant"] = q]).score
                    <= prediction.score

\* bpm * quad_mod of the profile, in thousandths.
AdjustedBpm(p) ==
    GetOr(p, "bpm", 0, 0) * QUADRANT_MODIFIERS(GetStr(p, "quadrant", "Q1"))

\* The profile meets the conditions of the empty-calories red flag.
EmptyCalories ==
    /\ Returned
    /\ \E i \in 1..Len(prediction.reasons) :
           prediction.reasons[i] = "empty calories"

\* The penalty on the stated scale: gap severity (6 - adj_bpm) / 4, which is
\* 0 at adjusted BPM 6 and 1.5 at adjusted BPM 0, so 4 + 4 * severity points.
StatedEcPenalty(adj_bpm) == Min(10, RoundMilli(4000 + (6000 - adj_bpm)))

\* C28: the empty-calories penalty scales with the BPM shortfall: it is 4
\* points at adjusted BPM 6, grows as the adjusted BPM falls, and reaches the
\* cap of 10 at adjusted BPM 0.
C28_EmptyCaloriesScales ==
    EmptyCalories =>
        EcPenalty(AdjustedBpm(player)) = StatedEcPenalty(AdjustedBpm(player))

\* The flag fires on a profile whose adjusted BPM is between 0 and 6.
C28_Fires ==
    EmptyCalories /\ AdjustedBpm(player) > 1000 /\ AdjustedBpm(player) < 6000

(***************************************************************************)
(* Properties of the distance terms (SpecSim)                              *)
(***************************************************************************)

\* The advanced stats, as <<profile key, key of diffs and weights>>.
AdvancedStats ==
    {<<"bpm", "bpm">>, <<"obpm", "obpm">>, <<"dbpm", "dbpm">>,
     <<"stl_per", "stl_per">>, <<"usg", "usg">>, <<"fta", "fta_pg">>,
     <<"ftr", "ftr">>, <<"rim_pct", "rim_pct">>, <<"tpa", "tpa">>}

\* (range_normalize(v) - 0.5)^2 times half of the weight w, in 1/100000.
HalfWeightMidpoint(v, key, w) ==
    LET d == range_normalize(ToUnit(v), key) - UNIT \div 2
    IN  (((d * d) \div 1000) * w) \div 2000

\* C12: for each advanced stat the prospect has and the candidate lacks, the
\* distance term is (range_normalize(prospect value) - 0.5)^2 times half of
\* the stat's effective weight.
C12_MidpointSubstitution ==
    sim.called =>
        \A st \in AdvancedStats :
            (player_a[st[1]] # ABSENT /\ player_b[st[1]] = ABSENT) =>
                sim.diffs[st[2]] =
                    HalfWeightMidpoint(player_a[st[1]], st[2], sim.weights[st[2]])

\* C27: for an advanced stat the prospect has above the midpoint of its range
\* and the candidate lacks, the distance term is nonzero and larger than the
\* term against a candidate whose value is the midpoint of the range.
C27_MissingFartherThanAverage ==
    sim.called =>
        \A st \in AdvancedStats :
            LET na == range_normalize(ToUnit(player_a[st[1]]), st[2])
            IN  (/\ player_a[st[1]] \notin {ABSENT, NONE, 0}
                 /\ na > UNIT \div 2
                 /\ player_b[st[1]] \in {ABSENT, 0}) =>
                    /\ sim.diffs[st[2]] > 0
                    /\ sim.diffs[st[2]]
                          > Term(na, UNIT \div 2, sim.weights[st[2]])

(***************************************************************************)
(* Properties of the calls on the shared objects (SpecFrame)               *)
(***************************************************************************)

ScoredWithSupplied(c) ==
    c.result[2] = TakeN(SortDesc(LabResults(records, 1, records[c.args[1]],
                                            c.result[1],
                                            WeightsOf(c.args[2], ConfigTables.v2))),
                        TOP_N)

\* C29: run_similarity_with_weights swaps V2_WEIGHTS only for the call: the
\* comparisons inside it use the supplied weights, afterwards V2_WEIGHTS holds
\* the entries it held before, and a later calculate_similarity call with
\* use_v2 computes from the original weights.
C29_SwapForTheCall ==
    \A i \in DOMAIN calls :
        calls[i].fn = "run_similarity_with_weights" =>
            /\ ScoredWithSupplied(calls[i])
            /\ tables.v2 = ConfigTables.v2
            /\ \A j \in DOMAIN calls :
                  (j > i /\ calls[j].fn = "calculate_similarity"
                         /\ calls[j].args[3][1] = "v2") =>
                      calls[j].result =
                          calculate_similarity(records[calls[j].args[1]],
                              records[calls[j].args[2]], "v2",
                              ConfigTables.mods[calls[j].args[3][2]])

\* The entries of V2_WEIGHTS are back after a swap, and a later comparison
\* with use_v2 is computed from them.
C29_Restored ==
    \E i, j \in DOMAIN calls :
        /\ i < j
        /\ calls[i].fn = "run_similarity_with_weights"
        /\ calls[i].args[2] = "V4_WEIGHTS"
        /\ ScoredWithSupplied(calls[i])
        /\ calls[j].fn = "calculate_similarity" /\ calls[j].args[3][1] = "v2"
        /\ tables.v2 = ConfigTables.v2

(***************************************************************************)
(* Properties of the helper functions (SpecFn)                             *)
(***************************************************************************)

\* n is clamp(num / den, 0, 1) cut to the fixed-point scale, for num on the
\* fixed-point scale and den > 0 in tenths.
ClampedRatio(n, num, den) ==
    IF num <= 0 THEN n = 0
    ELSE IF num >= ToUnit(den) THEN n = UNIT
    ELSE n * den <= num * 10 /\ num * 10 < (n + 1) * den

\* C16: range_normalize(value, key) lies in [0, 1], is non-decreasing in
\* value, is clamp((value - low) / (high - low), 0, 1) for a key with a range
\* and clamp(value / maximum, 0, 1) for a key without one, and a range with
\* low = high gives 0.5.
C16_RangeNormalize ==
    (ret.called /\ args.fn = "range_normalize") =>
        LET n == ret.value
            key == args.key
        IN  /\ 0 <= n /\ n <= UNIT
            /\ \A w \in NormValues :
                  w <= args.val => range_normalize(w, key) <= n
            /\ IF key \in DOMAIN STAT_RANGES
               THEN ClampedRatio(n, args.val - ToUnit(STAT_RANGES[key][1]),
                                 STAT_RANGES[key][2] - STAT_RANGES[key][1])
               ELSE ClampedRatio(n, args.val, MAX_STATS(key))
            /\ \A lo \in {0, 700} :
                  NormalizeInRange(args.val, lo, lo) = UNIT \div 2

\* A height inside its range is normalized strictly between 0 and 1, and
\* above a smaller height.
C16_Witness ==
    /\ ret.called /\ args.fn = "range_normalize" /\ args.key = "height"
    /\ args.val = ToUnit(750)
    /\ 0 < range_normalize(ToUnit(700) + 333, "height")
    /\ range_normalize(ToUnit(700) + 333, "height") < ret.value
    /\ ret.value < UNIT

\* C17: the divisions are guarded.  get_outlier_multiplier returns 1.0 for
\* an average of 0, and otherwise 3.0 for a ratio above 1.4, 1.5 for a ratio
\* above 1.2 or below 0.7, else 1.0; the per-30 stats of a player with zero
\* or absent minutes are those of a 30-minute player, the stat itself; the
\* assist-to-turnover ratio of a player with 0 turnovers is the assists.
C17_GuardedDivisions ==
    /\ (ret.called /\ args.fn = "get_outlier_multiplier") =>
          LET val == args.val
              avg == ToUnit(args.avg)
          IN  ret.value =
                IF args.avg = 0 THEN 10
                ELSE IF 10 * val > 14 * avg THEN 30
                ELSE IF 10 * val > 12 * avg \/ 10 * val < 7 * avg THEN 15
                ELSE 10
    /\ (ret.called /\ args.fn = "normalize_to_30"
           /\ args.p["mpg"] \in {0, ABSENT, NONE}) =>
          /\ ret.value = Adjusted([args.p EXCEPT !["mpg"] = 300])
          /\ ret.value.rpg = ToUnit(args.p["rpg"])
    /\ (ret.called /\ args.fn = "ato" /\ args.p["tpg"] = 0) =>
          ret.value = ToUnit(IF args.p["apg"] = ABSENT THEN 0
                             ELSE args.p["apg"])

\* A positive value against a zero average gets the multiplier 1.0.
C17_Witness ==
    /\ ret.called /\ args.fn = "get_outlier_multiplier"
    /\ args.avg = 0 /\ args.val > 0 /\ ret.value = 10

\* The position of an archetype in the order the rubrics are defined.
ArchIndex(a) == CHOOSE i \in 1..6 : Archetypes[i] = a

Classified == ret.called /\ args.fn = "classify_archetype"

\* C25: classify_archetype returns an archetype with the highest rubric
\* score, that score, and as secondary the best of the other five; on equal
\* scores the archetype defined first wins, and primary and secondary differ.
C25_HighestScoreFirstDefined ==
    Classified =>
        LET scores == ret.value.scores
            first == ArchIndex(ret.value.primary)
            second == ArchIndex(ret.value.secondary)
        IN  /\ ret.value.primary # ret.value.secondary
            /\ ret.value.score = scores[first]
            /\ \A j \in 1..6 : scores[j] <= scores[first]
            /\ \A j \in 1..(first - 1) : scores[j] < scores[first]
            /\ \A j \in (1..6) \ {first} : scores[j] <= scores[second]
            /\ \A j \in (1..(second - 1)) \ {first} :
                  scores[j] < scores[second]

\* Two rubrics share the top score and the one defined first is primary,
\* the other one secondary.
C25_Witness ==
    /\ Classified
    /\ \E i, j \in 1..6 :
          /\ i < j
          /\ ret.value.scores[i] = ret.value.scores[j]
          /\ \A k \in 1..6 : ret.value.scores[k] <= ret.value.scores[i]
          /\ ret.value.primary = Archetypes[i]
          /\ ret.value.secondary = Archetypes[j]

\* C26: each of the six rubric scores is a non-negative integer.
C26_ScoresNonNegative ==
    Classified => \A i \in 1..6 : ret.value.scores[i] \in Nat

====
